---------------------------- MODULE Spec2Model ----------------------------
(***************************************************************************)
(* Model of vimiv's parsers (src/vimiv/configparser.py).                   *)
(*                                                                         *)
(* Python strings are modelled as sequences of one-character strings, so   *)
(* that stripping, splitting, number parsing and formatting are computed   *)
(* character by character as the interpreter computes them.                *)
(***************************************************************************)
EXTENDS Integers, Sequences, FiniteSets, TLC

(***************************************************************************)
(* Python string primitives used by the parsers.                           *)
(***************************************************************************)
DigitChars == <<"0", "1", "2", "3", "4", "5", "6", "7", "8", "9">>

IsDigit(c) == \E i \in 1..10 : DigitChars[i] = c

DigitVal(c) == (CHOOSE i \in 1..10 : DigitChars[i] = c) - 1

UpperChars == <<"A", "B", "C", "D", "E", "F", "G", "H", "I", "J", "K", "L", "M",
                "N", "O", "P", "Q", "R", "S", "T", "U", "V", "W", "X", "Y", "Z">>

LowerChars == <<"a", "b", "c", "d", "e", "f", "g", "h", "i", "j", "k", "l", "m",
                "n", "o", "p", "q", "r", "s", "t", "u", "v", "w", "x", "y", "z">>

\* str.lower() on one character
LowerChar(c) ==
    IF \E i \in 1..26 : UpperChars[i] = c
    THEN LowerChars[CHOOSE i \in 1..26 : UpperChars[i] = c]
    ELSE c

\* str.lower()
Lower(s) == [i \in 1..Len(s) |-> LowerChar(s[i])]

\* s[i:] with a 1-based first index
Drop(s, i) == SubSeq(s, i, Len(s))

RECURSIVE LStripChar(_, _)
\* str.lstrip(c) for a one-character argument
LStripChar(s, c) ==
    IF s # <<>> /\ s[1] = c THEN LStripChar(Tail(s), c) ELSE s

RECURSIVE RStripChar(_, _)
\* str.rstrip(c) for a one-character argument
RStripChar(s, c) ==
    IF s # <<>> /\ s[Len(s)] = c
    THEN RStripChar(SubSeq(s, 1, Len(s) - 1), c)
    ELSE s

\* str.strip() (the blank is the only whitespace character of the model)
Strip(s) == RStripChar(LStripChar(s, " "), " ")

RECURSIVE SplitFrom(_, _, _)
SplitFrom(s, sep, cur) ==
    IF s = <<>> THEN <<cur>>
    ELSE IF s[1] = sep THEN <<cur>> \o SplitFrom(Tail(s), sep, <<>>)
    ELSE SplitFrom(Tail(s), sep, Append(cur, s[1]))

\* str.split(sep) for a one-character separator
Split(s, sep) == SplitFrom(s, sep, <<>>)

\* str.startswith / str.endswith
StartsWith(s, p) == Len(s) >= Len(p) /\ SubSeq(s, 1, Len(p)) = p

EndsWith(s, p) == Len(s) >= Len(p) /\ SubSeq(s, Len(s) - Len(p) + 1, Len(s)) = p

\* the digits of an int() argument: digits, single underscores between them
DigitsOk(d) ==
    /\ d # <<>>
    /\ \A i \in 1..Len(d) : IsDigit(d[i]) \/ d[i] = "_"
    /\ d[1] # "_" /\ d[Len(d)] # "_"
    /\ \A i \in 1..(Len(d) - 1) : ~(d[i] = "_" /\ d[i + 1] = "_")

RECURSIVE DigitsValue(_, _)
DigitsValue(d, acc) ==
    IF d = <<>> THEN acc
    ELSE IF d[1] = "_" THEN DigitsValue(Tail(d), acc)
    ELSE DigitsValue(Tail(d), 10 * acc + DigitVal(d[1]))

\* int(s): [ok |-> FALSE] stands for ValueError
ParseInt(s) ==
    LET t == Strip(s)
        signed == t # <<>> /\ t[1] \in {"+", "-"}
        d == IF signed THEN Tail(t) ELSE t
    IN  IF DigitsOk(d)
        THEN [ok |-> TRUE,
              val |-> IF signed /\ t[1] = "-" THEN 0 - DigitsValue(d, 0)
                      ELSE DigitsValue(d, 0)]
        ELSE [ok |-> FALSE, val |-> 0]

RECURSIVE NatToStr(_)
NatToStr(n) ==
    IF n < 10 THEN <<DigitChars[n + 1]>>
    ELSE NatToStr(n \div 10) \o <<DigitChars[(n % 10) + 1]>>

\* str(n) for an int
IntToStr(n) == IF n < 0 THEN <<"-">> \o NatToStr(0 - n) ELSE NatToStr(n)

\* str(b) for a bool
BoolToStr(b) == IF b THEN <<"T", "r", "u", "e">> ELSE <<"F", "a", "l", "s", "e">>

\* str(t) for a 2-tuple of int
TupleToStr(t) ==
    <<"(">> \o IntToStr(t[1]) \o <<",", " ">> \o IntToStr(t[2]) \o <<")">>


(***************************************************************************)
(* The environment: the user's home directory and the existing directories *)
(* (os.path.expanduser, os.path.isdir).                                     *)
(***************************************************************************)
Home == <<"/", "h">>

ExistingDirs == {Home, <<"/", "d">>, <<"/", "h", "/", "d">>}

\* os.path.expanduser: a leading "~" alone or before "/" becomes the home
\* directory; "~name" of an unknown user is returned unchanged
ExpandUser(p) ==
    IF p # <<>> /\ p[1] = "~" /\ (Len(p) = 1 \/ p[2] = "/")
    THEN Home \o Tail(p)
    ELSE p

\* os.path.isdir
IsDir(p) == p \in ExistingDirs

(***************************************************************************)
(* configparser.ConfigParser as vimiv uses it.                              *)
(***************************************************************************)
RECURSIVE InterpolateFrom(_, _)
\* BasicInterpolation: "%%" is a literal "%", any other use of "%" is an
\* InterpolationSyntaxError ("%(name)s" references are not among the
\* modelled values)
InterpolateFrom(rest, acc) ==
    IF rest = <<>> THEN [ok |-> TRUE, val |-> acc]
    ELSE IF rest[1] # "%" THEN InterpolateFrom(Tail(rest), Append(acc, rest[1]))
    ELSE IF Len(rest) >= 2 /\ rest[2] = "%"
         THEN InterpolateFrom(Drop(rest, 3), Append(acc, "%"))
    ELSE [ok |-> FALSE, val |-> <<>>]

\* section[setting]: the stored raw string after interpolation
Interpolate(raw) == InterpolateFrom(raw, <<>>)

\* A ConfigParser is the sequence of its sections in the order they were
\* first read, each [name, opts] with opts the options [name, raw] in order.
HasSection(config, name) == \E i \in 1..Len(config) : config[i].name = name

\* config[name], the options of a section that exists
SectionOptions(config, name) ==
    config[CHOOSE i \in 1..Len(config) : config[i].name = name].opts

\* mutant of SetOption: an option that is already there keeps its string
SetOptionKeepFirst(opts, o, i) ==
    IF \E j \in 1..Len(opts) : opts[j].name = o.name THEN opts
    ELSE Append(opts, o)

RECURSIVE SetOption(_, _, _)
\* section[name] = raw while reading: an option already there keeps its
\* place and takes the new string, a new one is appended
SetOption(opts, o, i) ==
    IF i > Len(opts) THEN Append(opts, o)
    ELSE IF opts[i].name = o.name THEN [opts EXCEPT ![i] = o]
    ELSE SetOption(opts, o, i + 1)

RECURSIVE MergeOptions(_, _)
MergeOptions(opts, new) ==
    IF new = <<>> THEN opts
    ELSE MergeOptions(SetOption(opts, Head(new), 1), Tail(new))

\* one section of a file read into the parser
MergeSection(config, sect) ==
    IF HasSection(config, sect.name)
    THEN [i \in 1..Len(config) |->
            IF config[i].name = sect.name
            THEN [name |-> sect.name, opts |-> MergeOptions(config[i].opts, sect.opts)]
            ELSE config[i]]
    ELSE Append(config, [name |-> sect.name, opts |-> MergeOptions(<<>>, sect.opts)])

RECURSIVE MergeSections(_, _)
MergeSections(config, sects) ==
    IF sects = <<>> THEN config
    ELSE MergeSections(MergeSection(config, Head(sects)), Tail(sects))

\* A file is [kind, sects].  kind is "missing" (no such file), "ok", or the
\* exception the parser raises on it: "ParsingError" (a line that is neither
\* header nor option; raised after the whole file was read),
\* "MissingSectionHeaderError" and "UnicodeDecodeError" (raised before any
\* option is read), "DuplicateOptionError" and "DuplicateSectionError".
\* sects are the sections [name, opts] the file holds.
\* mutant of ReadFiles: only the first file found is read
ReadFilesFirstFound(fs, i, config, nread) ==
    IF \A j \in i..Len(fs) : fs[j].kind = "missing"
    THEN [config |-> config, exc |-> "none", nread |-> nread]
    ELSE LET f == fs[CHOOSE j \in i..Len(fs) :
                        /\ fs[j].kind # "missing"
                        /\ \A m \in i..(j - 1) : fs[m].kind = "missing"]
         IN  IF f.kind = "ok"
             THEN [config |-> MergeSections(config, f.sects), exc |-> "none",
                   nread |-> nread + 1]
             ELSE [config |-> MergeSections(config, f.sects), exc |-> f.kind,
                   nread |-> nread]

RECURSIVE ReadFiles(_, _, _, _)
\* ConfigParser.read(filenames) from file i on: a missing file is skipped,
\* an exception ends the reading; nread counts the files read
ReadFiles(fs, i, config, nread) ==
    IF i > Len(fs) THEN [config |-> config, exc |-> "none", nread |-> nread]
    ELSE IF fs[i].kind = "missing" THEN ReadFiles(fs, i + 1, config, nread)
    ELSE IF fs[i].kind = "ok"
         THEN ReadFiles(fs, i + 1, MergeSections(config, fs[i].sects), nread + 1)
    ELSE [config |-> MergeSections(config, fs[i].sects), exc |-> fs[i].kind,
          nread |-> nread]

\* RawConfigParser.BOOLEAN_STATES
BOOLEAN_STATES ==
    [s \in {<<"1">>, <<"y", "e", "s">>, <<"t", "r", "u", "e">>, <<"o", "n">>, <<"0">>, <<"n", "o">>, <<"f", "a", "l", "s", "e">>, <<"o", "f", "f">>} |->
        s \in {<<"1">>, <<"y", "e", "s">>, <<"t", "r", "u", "e">>, <<"o", "n">>}]

\* RawConfigParser._convert_to_boolean: [ok |-> FALSE] stands for ValueError
ConvertToBoolean(value) ==
    IF Lower(value) \in DOMAIN BOOLEAN_STATES
    THEN [ok |-> TRUE, val |-> BOOLEAN_STATES[Lower(value)]]
    ELSE [ok |-> FALSE, val |-> FALSE]

(***************************************************************************)
(* set_defaults                                                             *)
(***************************************************************************)
general ==
    [start_fullscreen |-> FALSE,
     start_slideshow |-> FALSE,
     slideshow_delay |-> 2,
     shuffle |-> FALSE,
     display_bar |-> TRUE,
     default_thumbsize |-> <<128, 128>>,
     geometry |-> <<"8", "0", "0", "x", "6", "0", "0">>,
     search_case_sensitive |-> TRUE,
     incsearch |-> TRUE,
     recursive |-> FALSE,
     rescale_svg |-> TRUE,
     overzoom |-> FALSE,
     copy_to_primary |-> FALSE,
     commandline_padding |-> 6,
     thumb_padding |-> 10,
     completion_height |-> 200]

library ==
    [show_library |-> FALSE,
     library_width |-> 300,
     expand_lib |-> TRUE,
     border_width |-> 0,
     markup |-> <<"<", "s", "p", "a", "n", " ", "f", "o", "r", "e", "g", "r", "o", "u", "n", "d", "=", "\"", "#", "8", "7", "5", "F", "F", "F", "\"", ">">>,
     show_hidden |-> FALSE,
     desktop_start_dir |-> ExpandUser(<<"~">>),
     file_check_amount |-> 30,
     tilde_in_statusbar |-> TRUE]

aliases == <<>>

set_defaults == [GENERAL |-> general, LIBRARY |-> library, ALIASES |-> aliases]

(***************************************************************************)
(* overwrite_section                                                        *)
(***************************************************************************)
\* the key lists of the type dispatch
ThumbsizeKeys == {"default_thumbsize"}

IntKeys == {"library_width", "slideshow_delay", "file_check_amount",
            "commandline_padding", "thumb_padding", "completion_height",
            "border_width"}

StringKeys == {"geometry", "desktop_start_dir", "markup"}

\* "%s" % value for the value of a setting
ValueStr(setting, v) ==
    IF setting \in StringKeys THEN v
    ELSE IF setting \in ThumbsizeKeys THEN TupleToStr(v)
    ELSE IF setting \in IntKeys THEN IntToStr(v)
    ELSE BoolToStr(v)

\* mutant of UnknownWarning: the format string is appended unformatted
UnknownWarningUnformatted(setting) ==
    [kind |-> "unknown", setting |-> "%s", raw |-> <<>>, value |-> <<>>]

\* "Ignoring unknown setting %s."
UnknownWarning(setting) ==
    [kind |-> "unknown", setting |-> setting, raw |-> <<>>, value |-> <<>>]

\* "Invalid setting '%s' for '%s'.\nFalling back to default '%s'.\n\n"
FallbackWarning(raw, setting, value) ==
    [kind |-> "invalid", setting |-> setting, raw |-> raw, value |-> value]

\* setting not in settings[key] is false
IsKnown(key, setting, settings) == setting \in DOMAIN settings[key]

\* settings[key][setting] = val
SetItem(settings, key, setting, val) ==
    [settings EXCEPT ![key] = (setting :> val) @@ @]

\* The branches of the type dispatch.  Each yields an outcome: "set" (val is
\* assigned), "continue" (the setting is skipped silently), "ValueError"
\* (caught by the except clause) or the name of an exception that the except
\* clause does not catch.

\* mutant of ParseThumbsize: the parentheses are not stripped
ParseThumbsizeNoStrip(value) ==
    LET file_set == Split(value, ",")
    IN  IF ~ParseInt(file_set[1]).ok THEN [out |-> "ValueError", val |-> <<>>]
        ELSE IF Len(file_set) < 2 THEN [out |-> "IndexError", val |-> <<>>]
        ELSE IF ~ParseInt(file_set[2]).ok THEN [out |-> "ValueError", val |-> <<>>]
        ELSE IF Len(file_set) # 2 THEN [out |-> "ValueError", val |-> <<>>]
        ELSE [out |-> "set",
              val |-> <<ParseInt(file_set[1]).val, ParseInt(file_set[2]).val>>]

\* the default_thumbsize branch
ParseThumbsize(value) ==
    LET file_set == Split(RStripChar(LStripChar(value, "("), ")"), ",")
    IN  IF ~ParseInt(file_set[1]).ok THEN [out |-> "ValueError", val |-> <<>>]
        ELSE IF Len(file_set) < 2 THEN [out |-> "IndexError", val |-> <<>>]
        ELSE IF ~ParseInt(file_set[2]).ok THEN [out |-> "ValueError", val |-> <<>>]
        ELSE IF Len(file_set) # 2 THEN [out |-> "ValueError", val |-> <<>>]
        ELSE [out |-> "set",
              val |-> <<ParseInt(file_set[1]).val, ParseInt(file_set[2]).val>>]

\* the integer branch
ParseIntSetting(value) ==
    IF ParseInt(value).ok
    THEN [out |-> "set", val |-> ParseInt(value).val]
    ELSE [out |-> "ValueError", val |-> <<>>]

\* mutant of ParseStartDir: the directory is not checked for existence
ParseStartDirUnchecked(value) == [out |-> "set", val |-> ExpandUser(value)]

\* the desktop_start_dir branch
ParseStartDir(value) ==
    LET file_set == ExpandUser(value)
    IN  IF ~IsDir(file_set)
        THEN [out |-> "continue", val |-> <<>>]
        ELSE [out |-> "set", val |-> file_set]

\* the markup branch
ParseMarkup(value) ==
    IF ~StartsWith(value, <<"<", "s", "p", "a", "n", " ">>)
       \/ ~EndsWith(value, <<">">>)
    THEN [out |-> "continue", val |-> <<>>]
    ELSE [out |-> "set", val |-> value]

\* the else branch: section.getboolean(setting)
ParseBoolSetting(value) ==
    IF ConvertToBoolean(value).ok
    THEN [out |-> "set", val |-> ConvertToBoolean(value).val]
    ELSE [out |-> "ValueError", val |-> <<>>]

\* the body of the try block for one known setting; every branch first reads
\* section[setting], which interpolates the raw string
ParseSetting(setting, raw) ==
    LET got == Interpolate(raw)
        value == got.val
    IN  IF ~got.ok THEN [out |-> "InterpolationSyntaxError", val |-> <<>>]
        ELSE IF setting = "geometry" THEN [out |-> "set", val |-> value]
        ELSE IF setting \in ThumbsizeKeys THEN ParseThumbsize(value)
        ELSE IF setting \in IntKeys THEN ParseIntSetting(value)
        ELSE IF setting = "desktop_start_dir" THEN ParseStartDir(value)
        ELSE IF setting = "markup" THEN ParseMarkup(value)
        ELSE ParseBoolSetting(value)

RECURSIVE OverwriteFrom(_, _, _, _, _)
\* the for loop of overwrite_section from option i of the section on; done
\* counts the options the loop has finished with
OverwriteFrom(key, section, i, settings, message) ==
    IF i > Len(section)
    THEN [settings |-> settings, message |-> message, raised |-> "none",
          done |-> Len(section)]
    ELSE
      LET setting == section[i].name
          raw == section[i].raw
      IN  IF ~IsKnown(key, setting, settings)
          THEN OverwriteFrom(key, section, i + 1, settings,
                             Append(message, UnknownWarning(setting)))
          ELSE
            LET r == ParseSetting(setting, raw)
            IN  CASE r.out = "set" ->
                       OverwriteFrom(key, section, i + 1,
                           SetItem(settings, key, setting, r.val), message)
                  [] r.out = "continue" ->
                       OverwriteFrom(key, section, i + 1, settings, message)
                  [] r.out = "ValueError" ->
                       OverwriteFrom(key, section, i + 1, settings,
                           Append(message,
                               FallbackWarning(Interpolate(raw).val, setting,
                                   ValueStr(setting, settings[key][setting]))))
                  [] OTHER ->
                       [settings |-> settings, message |-> message,
                        raised |-> r.out, done |-> i - 1]

\* overwrite_section(key, config, settings): the settings as the call leaves
\* them, the message it returns and the exception it raises ("none": returns)
overwrite_section(key, config, settings) ==
    OverwriteFrom(key, SectionOptions(config, key), 1, settings, <<>>)

(***************************************************************************)
(* add_aliases and parse_config                                             *)
(***************************************************************************)
\* "Parsing alias '%s' failed. ..."
AliasWarning(alias) ==
    [kind |-> "alias", setting |-> alias, raw |-> <<>>, value |-> <<>>]

\* the report of an exception that parse_config catches around config.read
ReadWarning(exc) ==
    [kind |-> exc, setting |-> "", raw |-> <<>>, value |-> <<>>]

\* the except clauses around config.read
CaughtByParseConfig ==
    {"UnicodeDecodeError", "MissingSectionHeaderError", "ParsingError"}

RECURSIVE AddAliasesFrom(_, _, _, _)
AddAliasesFrom(alias_section, i, settings, message) ==
    IF i > Len(alias_section)
    THEN [settings |-> settings, message |-> message]
    ELSE IF Interpolate(alias_section[i].raw).ok
         THEN AddAliasesFrom(alias_section, i + 1,
                  SetItem(settings, "ALIASES", alias_section[i].name,
                          Interpolate(alias_section[i].raw).val),
                  message)
    ELSE AddAliasesFrom(alias_section, i + 1, settings,
             Append(message, AliasWarning(alias_section[i].name)))

\* add_aliases(config, settings)
add_aliases(config, settings) ==
    AddAliasesFrom(IF HasSection(config, "ALIASES")
                   THEN SectionOptions(config, "ALIASES")
                   ELSE <<>>,
                   1, settings, <<>>)

\* keys = [key for key in config if key in ["GENERAL", "LIBRARY"]]
OverlayKeys(config) ==
    LET names == [i \in 1..Len(config) |-> config[i].name]
        IsOverlaid(n) == n \in {"GENERAL", "LIBRARY"}
    IN  SelectSeq(names, IsOverlaid)

(***************************************************************************)
(* parse_keys                                                               *)
(***************************************************************************)
\* the sections read at lines 211-215, in that order
RequiredSections == <<"IMAGE", "THUMBNAIL", "LIBRARY", "MANIPULATE", "COMMAND">>

\* the deprecated sections handed to update_keybindings for each window
SharedSections(mode) ==
    IF mode = "IMAGE" THEN <<"GENERAL", "IM_THUMB", "IM_LIB">>
    ELSE IF mode = "THUMBNAIL" THEN <<"GENERAL", "IM_THUMB">>
    ELSE IF mode = "LIBRARY" THEN <<"GENERAL", "IM_LIB">>
    ELSE <<>>

\* the first required section that the parser lacks (the KeyError), 0 if none
FirstMissingSection(keys) ==
    IF \A i \in 1..Len(RequiredSections) : HasSection(keys, RequiredSections[i])
    THEN 0
    ELSE CHOOSE i \in 1..Len(RequiredSections) :
           /\ ~HasSection(keys, RequiredSections[i])
           /\ \A j \in 1..(i - 1) : HasSection(keys, RequiredSections[j])

\* "Missing section 'X' in keys.conf. ..."
MissingSectionMessage(name) ==
    [kind |-> "missing section", setting |-> name, raw |-> <<>>, value |-> <<>>]

\* "Keyfile not found. Exiting." and "... Duplicate keybinding. Exiting."
ExitMessage(kind) ==
    [kind |-> kind, setting |-> "", raw |-> <<>>, value |-> <<>>]

\* keys[section] read value by value: the options after interpolation
InterpolatedOptions(opts) ==
    [i \in 1..Len(opts) |->
        [name |-> opts[i].name, raw |-> Interpolate(opts[i].raw).val]]

RECURSIVE update_keybindings(_, _, _, _)
\* update_keybindings(sections, keydict) from section i of the list on:
\* keydict.update(keys[section]) writes every binding of a shared section
\* that exists into keydict, the options of the window's section
update_keybindings(keys, sections, i, keydict) ==
    IF i > Len(sections) THEN keydict
    ELSE IF HasSection(keys, sections[i])
         THEN update_keybindings(keys, sections, i + 1,
                  MergeOptions(keydict,
                      InterpolatedOptions(SectionOptions(keys, sections[i]))))
    ELSE update_keybindings(keys, sections, i + 1, keydict)

\* the three calls at lines 231-233 and the dictionary returned at lines
\* 236-241: for each window the options of its section after the update
Keybindings(keys) ==
    [mode \in {RequiredSections[i] : i \in 1..Len(RequiredSections)} |->
        update_keybindings(keys, SharedSections(mode), 1,
                           SectionOptions(keys, mode))]

(***************************************************************************)
(* parse_dirs(basedir): the paths and the directory creation.  The file     *)
(* system is the set of paths that are directories and the set of paths     *)
(* that are something else (a regular file).                                *)
(***************************************************************************)
\* the index of the last "/" of a path, 0 when it has none
LastSlash(path) ==
    IF \E i \in 1..Len(path) : path[i] = "/"
    THEN CHOOSE i \in 1..Len(path) :
             /\ path[i] = "/"
             /\ \A j \in (i + 1)..Len(path) : path[j] # "/"
    ELSE 0

\* os.path.dirname
Dirname(path) ==
    IF LastSlash(path) = 0 THEN <<>>
    ELSE IF \A i \in 1..LastSlash(path) : path[i] = "/"
         THEN SubSeq(path, 1, LastSlash(path))
    ELSE RStripChar(SubSeq(path, 1, LastSlash(path)), "/")

\* os.path.basename
Basename(path) == SubSeq(path, LastSlash(path) + 1, Len(path))

\* os.path.join(a, b)
Join(a, b) ==
    IF StartsWith(b, <<"/">>) THEN b
    ELSE IF a = <<>> \/ EndsWith(a, <<"/">>) THEN a \o b
    ELSE a \o <<"/">> \o b

\* the three subdirectory names of lines 251-253
SubdirNames == << <<"T", "a", "g", "s">>,
                  <<"T", "h", "u", "m", "b", "n", "a", "i", "l", "s">>,
                  <<"T", "r", "a", "s", "h">> >>

\* the list dirs of line 254
RequiredDirs(base) ==
    LET vimivdir == ExpandUser(base)
    IN  <<vimivdir>> \o [i \in 1..Len(SubdirNames) |-> Join(vimivdir, SubdirNames[i])]

\* os.mkdir(path) on the directories d and the other files f
Mkdir(path, d, f) ==
    IF path \in d \cup f THEN [dirs |-> d, exc |-> "FileExistsError"]
    ELSE IF Dirname(path) \in f THEN [dirs |-> d, exc |-> "NotADirectoryError"]
    ELSE IF Dirname(path) \notin d THEN [dirs |-> d, exc |-> "FileNotFoundError"]
    ELSE [dirs |-> d \cup {path}, exc |-> "none"]

RECURSIVE MakeDirsAlways(_, _, _, _)
\* the loop of lines 256-258 without the os.path.isdir test
MakeDirsAlways(dirs, i, d, f) ==
    IF i > Len(dirs) THEN [dirs |-> d, exc |-> "none"]
    ELSE LET r == Mkdir(dirs[i], d, f)
         IN  IF r.exc # "none" THEN r
             ELSE MakeDirsAlways(dirs, i + 1, r.dirs, f)

RECURSIVE MakeDirs(_, _, _, _)
\* the loop of lines 256-258 from directory i of the list on
MakeDirs(dirs, i, d, f) ==
    IF i > Len(dirs) THEN [dirs |-> d, exc |-> "none"]
    ELSE IF dirs[i] \in d THEN MakeDirs(dirs, i + 1, d, f)
    ELSE LET r == Mkdir(dirs[i], d, f)
         IN  IF r.exc # "none" THEN r
             ELSE MakeDirs(dirs, i + 1, r.dirs, f)

\* parse_dirs(basedir)
parse_dirs(base, d, f) == MakeDirs(RequiredDirs(base), 1, d, f)

(***************************************************************************)
(* The Library.  The directory tree the library browses: for every          *)
(* directory its entries in the order of the listing, each with its name,   *)
(* its kind ("dir", "image", "broken" for a symbolic link whose target does *)
(* not exist, or "file" for anything else) and its size in bytes.  A        *)
(* directory without permissions can neither be entered nor listed.  /t is  *)
(* the directory of the tags.                                               *)
(***************************************************************************)
Root == <<"/">>

DirB == <<"/", "b">>

DirC == <<"/", "b", "/", "c">>

DirZ == <<"/", "z">>

DirT == <<"/", "t">>

Entry(name, kind, size) == [name |-> name, kind |-> kind, size |-> size]

Tree ==
    (Root :> << Entry(<<".", "x">>, "image", 7), Entry(<<"b">>, "dir", 0),
                Entry(<<"i">>, "image", 5), Entry(<<"n">>, "file", 3),
                Entry(<<"t">>, "dir", 0), Entry(<<"z">>, "dir", 0) >>)
    @@ (DirB :> << Entry(<<"a">>, "broken", 0), Entry(<<"c">>, "dir", 0),
                   Entry(<<"i">>, "image", 9) >>)
    @@ (DirC :> << Entry(<<".", "y">>, "image", 1),
                   Entry(<<".", "z">>, "image", 2) >>)
    @@ (DirT :> << Entry(<<".", "s">>, "broken", 0),
                   Entry(<<"w">>, "file", 6) >>)
    @@ (DirZ :> << Entry(<<"k">>, "image", 4) >>)

NoPermission == {DirZ}

\* app["tags"].directory
TagsDirectory == DirT

RECURSIVE SelectNames(_, _)
\* the elements of a sequence that are in the set keep, in order
SelectNames(names, keep) ==
    IF names = <<>> THEN <<>>
    ELSE IF names[1] \in keep THEN <<names[1]>> \o SelectNames(Tail(names), keep)
    ELSE SelectNames(Tail(names), keep)

Range(seq) == {seq[i] : i \in 1..Len(seq)}

\* list.index(x), counted from 0
IndexOf(seq, x) == (CHOOSE i \in 1..Len(seq) :
                        seq[i] = x /\ \A j \in 1..(i - 1) : seq[j] # x) - 1

\* the absolute path of an entry of the working directory
AbsPath(cwd, name) == Join(cwd, name)

\* the kind of a path: "dir", "image", "broken", "file", or "absent"
KindOf(path) ==
    IF path = Root THEN "dir"
    ELSE IF Dirname(path) \in DOMAIN Tree
            /\ \E i \in 1..Len(Tree[Dirname(path)]) :
                   Tree[Dirname(path)][i].name = Basename(path)
         THEN (CHOOSE e \in Range(Tree[Dirname(path)]) :
                   e.name = Basename(path)).kind
    ELSE "absent"

\* os.path.getsize
GetSize(path) ==
    (CHOOSE e \in Range(Tree[Dirname(path)]) : e.name = Basename(path)).size

\* listdir_wrapper(path, show_hidden): the names of the entries, without
\* those that start with "." unless show_hidden; [ok |-> FALSE] stands for
\* the exception of os.listdir
listdir_wrapper(path, show_hidden) ==
    IF path \notin DOMAIN Tree \/ path \in NoPermission
    THEN [ok |-> FALSE, names |-> <<>>]
    ELSE LET all == [i \in 1..Len(Tree[path]) |-> Tree[path][i].name]
         IN  [ok |-> TRUE,
              names |-> SelectNames(all,
                  {n \in Range(all) : show_hidden \/ n[1] # "."})]

\* is_image(path)
is_image(path) == KindOf(path) = "image"

\* sizeof_fmt(num) for a size below 1024 bytes
sizeof_fmt(num) == NatToStr(num) \o <<"B">>

\* the first k elements of a sequence (seq[:k])
Take(seq, k) == SubSeq(seq, 1, IF k < Len(seq) THEN k ELSE Len(seq))

\* mutant of DirAmount: the images are counted among all entries
DirAmountOfAll(path, show_hidden, file_check_amount) ==
    LET ls == listdir_wrapper(path, show_hidden)
        many == Len(ls.names) > file_check_amount
        subfiles == SelectNames(ls.names,
                        {n \in Range(ls.names) : is_image(Join(path, n))})
    IN  IF ~ls.ok THEN <<"N", "/", "A">>
        ELSE IF subfiles # <<>> /\ many
             THEN NatToStr(Len(subfiles)) \o <<"+">>
        ELSE NatToStr(Len(subfiles))

\* the size column of a subdirectory (lines 381-395)
DirAmount(path, show_hidden, file_check_amount) ==
    LET ls == listdir_wrapper(path, show_hidden)
        many == Len(ls.names) > file_check_amount
        subfiles == SelectNames(Take(ls.names, file_check_amount),
                        {n \in Range(ls.names) : is_image(Join(path, n))})
    IN  IF ~ls.ok THEN <<"N", "/", "A">>
        ELSE IF subfiles # <<>> /\ many
             THEN NatToStr(Len(subfiles)) \o <<"+">>
        ELSE NatToStr(Len(subfiles))

\* filelist_create(".") in the working directory cwd: the listing and the
\* filesize dictionary, which has no key for a broken symbolic link
\* (lines 376-378)
filelist_create(cwd, show_hidden, file_check_amount) ==
    LET files == listdir_wrapper(cwd, show_hidden).names
    IN  [files |-> files,
         filesize |->
            [fil \in {f \in Range(files) :
                         KindOf(AbsPath(cwd, f)) # "broken"} |->
                IF KindOf(AbsPath(cwd, fil)) = "dir"
                THEN DirAmount(AbsPath(cwd, fil), show_hidden, file_check_amount)
                ELSE sizeof_fmt(GetSize(AbsPath(cwd, fil)))]]

\* self.files after liststore_create (lines 168-174): outside the tags
\* directory only images and directories are kept
ListedFiles(cwd, show_hidden, file_check_amount) ==
    LET files == filelist_create(cwd, show_hidden, file_check_amount).files
    IN  IF cwd # TagsDirectory
        THEN SelectNames(files,
                 {f \in Range(files) :
                      is_image(AbsPath(cwd, f)) \/ KindOf(AbsPath(cwd, f)) = "dir"})
        ELSE files

\* the values of the setting file_check_amount: the default and two that
\* are below the number of entries of a subdirectory
CheckAmounts == {1, 2, library.file_check_amount}

\* what liststore_create leaves in self.files and self.filesize, for every
\* directory that can be listed, show_hidden and file_check_amount; keyerror
\* tells that self.filesize[fil] of line 178 raises KeyError for one of the
\* files, and kind is the kind of every file of the listing
Liststores ==
    [cwd \in DOMAIN Tree \ NoPermission, show_hidden \in BOOLEAN,
     file_check_amount \in CheckAmounts |->
        LET fc == filelist_create(cwd, show_hidden, file_check_amount)
            listed == ListedFiles(cwd, show_hidden, file_check_amount)
        IN  [files |-> listed,
             filesize |-> fc.filesize,
             keyerror |-> \E f \in Range(listed) : f \notin DOMAIN fc.filesize,
             kind |-> [f \in Range(listed) |-> KindOf(AbsPath(cwd, f))]]]

\* the directories that exist and may be entered
EnterableDirs == {d \in DOMAIN Tree : KindOf(d) = "dir"} \ NoPermission

\* os.chdir(directory) from the working directory cwd, dirs being the
\* directories that may be entered: [ok |-> FALSE] stands for the OSError of
\* a directory that is missing or may not be entered
Chdir(cwd, directory, dirs) ==
    LET target == IF directory = <<".", ".">> THEN Dirname(cwd)
                  ELSE IF directory = <<".">> THEN cwd
                  ELSE Join(cwd, directory)
    IN  IF target \in dirs
        THEN [ok |-> TRUE, cwd |-> target]
        ELSE [ok |-> FALSE, cwd |-> cwd]

(***************************************************************************)
(* The operations of the Library on a record l of its attributes and of     *)
(* the state of the components it calls:                                    *)
(*   cwd               os.getcwd()                                          *)
(*   files, filesize, dir_pos, show_hidden, width, default_width,           *)
(*   file_check_amount the attributes of the same names                     *)
(*   visible           grid.is_visible()                                    *)
(*   cursor            the row last passed to treeview.set_cursor, row 0    *)
(*                     after a new model was set                            *)
(*   focus             the widget that grabbed the focus, "lib" or "image"  *)
(*   num_str           app["keyhandler"].num_str                            *)
(*   search_positions  app["commandline"].search_positions                  *)
(*   running           app["slideshow"].running                             *)
(*   paths, index      app.paths and app.index                              *)
(*   winsize           app["window"].winsize[0]                             *)
(*   rows              len(treeview.get_model()), the rows of the model the *)
(*                     tree view shows                                      *)
(*   tags_last         app["tags"].last, <<>> when no tag was loaded        *)
(*   err               the messages given to statusbar.err_message by the   *)
(*                     operation in progress                                *)
(*   exc               the exception the operation in progress has raised   *)
(*                     and not caught, <<>> when there is none              *)
(*   disk              the file system as liststore_create finds it with    *)
(*                     the file_check_amount of this library: the listing   *)
(*                     and the sizes of every directory                     *)
(*   dirs              the directories os.chdir can enter                   *)
(***************************************************************************)
\* app["statusbar"].err_message(message)
err_message(l, msg) == [l EXCEPT !.err = Append(@, msg)]

\* app["keyhandler"].num_clear()
num_clear(l) == [l EXCEPT !.num_str = <<>>]

\* app.get_pos(force_widget="lib")
get_pos(l) == l.cursor

\* remember_pos(directory, position)
remember_pos(l, directory, position) ==
    [l EXCEPT !.dir_pos = (directory :> position) @@ @]

\* treeview.set_cursor(Gtk.TreePath(new_pos), None, False)
set_cursor(l, new_pos) == [l EXCEPT !.cursor = new_pos]

\* mutant of move_pos: G moves to the first row and g to the last
move_pos_swapped(l, forward, defined_pos) ==
    IF l.files = <<>> THEN err_message(l, "Warning: Directory is empty")
    ELSE IF defined_pos # <<>> THEN num_clear(set_cursor(l, defined_pos[1]))
    ELSE IF l.num_str # <<>>
         THEN IF ParseInt(l.num_str).val - 1 < 0
                 \/ ParseInt(l.num_str).val - 1 > Len(l.files) - 1
              THEN err_message(num_clear(l), "Warning: Unsupported index")
              ELSE num_clear(set_cursor(l, ParseInt(l.num_str).val - 1))
    ELSE IF forward THEN num_clear(set_cursor(l, 0))
    ELSE num_clear(set_cursor(l, Len(l.files) - 1))

\* move_pos(forward, defined_pos); defined_pos is <<>> for None and <<p>>
\* for the int p
move_pos(l, forward, defined_pos) ==
    IF l.files = <<>> THEN err_message(l, "Warning: Directory is empty")
    ELSE IF defined_pos # <<>> THEN num_clear(set_cursor(l, defined_pos[1]))
    ELSE IF l.num_str # <<>>
         THEN IF ParseInt(l.num_str).val - 1 < 0
                 \/ ParseInt(l.num_str).val - 1 > Len(l.files) - 1
              THEN err_message(num_clear(l), "Warning: Unsupported index")
              ELSE num_clear(set_cursor(l, ParseInt(l.num_str).val - 1))
    ELSE IF forward THEN num_clear(set_cursor(l, Len(l.files) - 1))
    ELSE num_clear(set_cursor(l, 0))

\* raise of an exception that the operation does not catch
raise(l, exception) == [l EXCEPT !.exc = <<exception>>]

\* treeview.set_model(self.liststore_create()): the new listing, its sizes,
\* and a tree view without a cursor of its own; when line 178 raises,
\* self.files and self.filesize are the new ones and the tree view keeps its
\* model
set_model(l) ==
    LET d == l.disk[l.cwd, l.show_hidden, l.file_check_amount]
        l1 == [l EXCEPT !.files = d.files, !.filesize = d.filesize]
    IN  IF d.keyerror THEN raise(l1, "KeyError")
        ELSE [l1 EXCEPT !.rows = Len(d.files), !.cursor = 0]

\* mutant of restore_pos: the last directory goes before the saved position
restore_pos_last_first(l, directory, last_directory) ==
    IF Basename(last_directory) \in Range(l.files)
    THEN move_pos(l, TRUE, <<IndexOf(l.files, Basename(last_directory))>>)
    ELSE IF directory \in DOMAIN l.dir_pos
         THEN move_pos(l, TRUE, <<l.dir_pos[directory]>>)
    ELSE l

\* the second part of reload (lines 277-283) on the new listing
restore_pos(l, directory, last_directory) ==
    IF directory \in DOMAIN l.dir_pos
    THEN move_pos(l, TRUE, <<l.dir_pos[directory]>>)
    ELSE IF Basename(last_directory) \in Range(l.files)
         THEN move_pos(l, TRUE, <<IndexOf(l.files, Basename(last_directory))>>)
    ELSE l

\* the part of toggle that shows the library (lines 117-131)
show(l) ==
    LET l1 == [l EXCEPT !.visible = TRUE]
        image == l1.paths[l1.index + 1]
        l2 == IF l1.paths = <<>> THEN l1
              ELSE IF Dirname(image) = l1.cwd
                      /\ Basename(image) \in Range(l1.files)
                   THEN remember_pos(l1, l1.cwd,
                                     IndexOf(l1.files, Basename(image)))
              ELSE l1
    IN  [l2 EXCEPT !.running = FALSE]

\* reload(directory, last_directory, search) in a visible library: focus
\* finds the grid visible
reload_visible(l, directory, last_directory, search) ==
    LET l1 == IF ~search THEN [l EXCEPT !.search_positions = <<>>] ELSE l
        l2 == set_model(l1)
    IN  IF l2.exc # <<>> THEN l2
        ELSE restore_pos([l2 EXCEPT !.focus = "lib"], directory, last_directory)

\* mutant of focus: a hidden library is focused without being shown
focus_only(l, focus_library) ==
    IF ~focus_library THEN [l EXCEPT !.focus = "image"]
    ELSE [l EXCEPT !.focus = "lib"]

\* focus(focus_library)
focus(l, focus_library) ==
    IF ~focus_library THEN [l EXCEPT !.focus = "image"]
    ELSE IF l.visible THEN [l EXCEPT !.focus = "lib"]
    ELSE \* toggle() shows the library, focuses it and reloads
         reload_visible([show([l EXCEPT !.focus = "lib"]) EXCEPT !.focus = "lib"],
                        l.cwd, <<>>, FALSE)

\* mutant of toggle: hiding does not remember the position
toggle_forgetful(l, update_image) ==
    IF l.visible
    THEN focus([l EXCEPT !.visible = FALSE], FALSE)
    ELSE reload_visible(focus(show(l), TRUE), l.cwd, <<>>, FALSE)

\* toggle(update_image)
toggle(l, update_image) ==
    IF l.visible
    THEN focus([remember_pos(l, l.cwd, get_pos(l)) EXCEPT !.visible = FALSE],
               FALSE)
    ELSE reload_visible(focus(show(l), TRUE), l.cwd, <<>>, FALSE)

\* reload(directory, last_directory, search)
reload(l, directory, last_directory, search) ==
    LET l1 == IF ~search THEN [l EXCEPT !.search_positions = <<>>] ELSE l
        l2 == set_model(l1)
        l3 == focus(l2, TRUE)
    IN  IF l2.exc # <<>> THEN l2
        ELSE IF l3.exc # <<>> THEN l3
        ELSE restore_pos(l3, directory, last_directory)

\* mutant of move_up: the search positions are reset before os.chdir
move_up_reset_first(l, directory, start) ==
    LET curdir == l.cwd
        cd == Chdir(l.cwd, directory, l.dirs)
        r == reload([l EXCEPT !.cwd = cd.cwd], cd.cwd, curdir, FALSE)
    IN  IF ~cd.ok
        THEN err_message([l EXCEPT !.search_positions = <<>>],
                         "Error: directory not accessible")
        ELSE IF ~start
             THEN IF r.exc # <<>>
                  THEN err_message([r EXCEPT !.exc = <<>>],
                                   "Error: directory not accessible")
                  ELSE r
        ELSE [l EXCEPT !.cwd = cd.cwd]

\* move_up(directory, start): the bare except of line 251 catches the
\* OSError of os.chdir and every exception of reload
move_up(l, directory, start) ==
    LET curdir == l.cwd
        cd == Chdir(l.cwd, directory, l.dirs)
        r == reload([l EXCEPT !.cwd = cd.cwd], cd.cwd, curdir, FALSE)
    IN  IF ~cd.ok THEN err_message(l, "Error: directory not accessible")
        ELSE IF ~start
             THEN IF r.exc # <<>>
                  THEN err_message([r EXCEPT !.exc = <<>>],
                                   "Error: directory not accessible")
                  ELSE r
        ELSE [l EXCEPT !.cwd = cd.cwd]

\* mutant of toggle_hidden: hidden files are switched on, never off
toggle_hidden_on(l) ==
    reload([l EXCEPT !.show_hidden = TRUE], <<".">>, <<>>, FALSE)

\* toggle_hidden()
toggle_hidden(l) ==
    reload([l EXCEPT !.show_hidden = ~l.show_hidden], <<".">>, <<>>, FALSE)

\* the Python test "sub in string" on strings
IsSubstring(sub, string) ==
    \E i \in 0..(Len(string) - Len(sub)) :
        SubSeq(string, i + 1, i + Len(sub)) = sub

\* os.path.isfile and os.path.isdir of an entry of the listing
isfile(l, fil) ==
    l.disk[l.cwd, l.show_hidden, l.file_check_amount].kind[fil]
        \in {"image", "file"}

isdir(l, fil) ==
    l.disk[l.cwd, l.show_hidden, l.file_check_amount].kind[fil] = "dir"

\* populate(self.files): the absolute paths of the images among the files,
\* the first of them being the one displayed
populate(l) ==
    LET images == SelectNames(l.files,
                      {f \in Range(l.files) :
                          l.disk[l.cwd, l.show_hidden,
                                 l.file_check_amount].kind[f] = "image"})
    IN  [paths |-> [i \in 1..Len(images) |-> AbsPath(l.cwd, images[i])],
         index |-> 0]

\* app["image"].move_index(delta=index)
move_index(l, delta) == [l EXCEPT !.index = (@ + delta) % Len(l.paths)]

\* app["tags"].load(fil): the tag is the last one loaded
tags_load(l, fil) == [l EXCEPT !.tags_last = <<fil>>]

\* the index file_select computes in lines 221-226: the entries before fil
\* that are files
FilesBefore(l, fil) ==
    Cardinality({i \in 1..IndexOf(l.files, fil) : isfile(l, l.files[i])})

\* mutant of file_select: the library is closed only when the activated file
\* is the image displayed
file_select_same_image(l, count, close) ==
    IF count >= Len(l.files) THEN raise(l, "IndexError")
    ELSE LET fil == l.files[count + 1]
             l1 == remember_pos(l, l.cwd, count)
             again == IF fil = l1.tags_last[1] THEN toggle(l1, TRUE) ELSE l1
             close_it == close \/ (l1.paths # <<>>
                                    /\ AbsPath(l1.cwd, fil)
                                          = l1.paths[l1.index + 1])
             pop == populate(l1)
             l2 == [l1 EXCEPT !.paths = pop.paths, !.index = pop.index]
             l3 == IF close_it THEN toggle(l2, FALSE) ELSE l2
         IN  IF l1.cwd = TagsDirectory
             THEN IF l1.tags_last # <<>> /\ again.exc # <<>> THEN again
                  ELSE IF l1.tags_last # <<>> THEN tags_load(again, fil)
                  ELSE tags_load(l1, fil)
             ELSE IF isdir(l1, fil) THEN move_up(l1, fil, FALSE)
             ELSE IF pop.paths = <<>> THEN l2
             ELSE IF l3.exc # <<>> THEN l3
             ELSE move_index(l3, FilesBefore(l1, fil))

\* file_select(treeview, path, column, close), count being
\* path.get_indices()[0]
file_select(l, count, close) ==
    IF count >= Len(l.files) THEN raise(l, "IndexError")
    ELSE LET fil == l.files[count + 1]
             l1 == remember_pos(l, l.cwd, count)
             again == IF fil = l1.tags_last[1] THEN toggle(l1, TRUE) ELSE l1
             close_it == close \/ (l1.paths # <<>>
                                    /\ IsSubstring(fil, l1.paths[l1.index + 1]))
             pop == populate(l1)
             l2 == [l1 EXCEPT !.paths = pop.paths, !.index = pop.index]
             l3 == IF close_it THEN toggle(l2, FALSE) ELSE l2
         IN  IF l1.cwd = TagsDirectory
             THEN IF l1.tags_last # <<>> /\ again.exc # <<>> THEN again
                  ELSE IF l1.tags_last # <<>> THEN tags_load(again, fil)
                  ELSE tags_load(l1, fil)
             ELSE IF isdir(l1, fil) THEN move_up(l1, fil, FALSE)
             ELSE IF pop.paths = <<>> THEN l2
             ELSE IF l3.exc # <<>> THEN l3
             ELSE move_index(l3, FilesBefore(l1, fil))

\* the step of scroll (lines 420-423)
scroll_step(l) == IF l.num_str # <<>> THEN ParseInt(l.num_str).val ELSE 1

\* mutant of scroll: the new position is not limited to the listing
scroll_unlimited(l, direction) ==
    IF direction = "h"
    THEN move_up(remember_pos(l, l.cwd, get_pos(l)), <<".", ".">>, FALSE)
    ELSE IF direction = "l" THEN file_select(l, l.cursor, FALSE)
    ELSE IF direction = "j"
         THEN move_pos(l, TRUE, <<get_pos(l) + scroll_step(l)>>)
    ELSE move_pos(l, TRUE, <<get_pos(l) - scroll_step(l)>>)

\* scroll(direction); treeview.get_cursor()[0] is the row of the cursor
scroll(l, direction) ==
    IF direction = "h"
    THEN move_up(remember_pos(l, l.cwd, get_pos(l)), <<".", ".">>, FALSE)
    ELSE IF direction = "l" THEN file_select(l, l.cursor, FALSE)
    ELSE IF direction = "j"
         THEN move_pos(l, TRUE,
                  <<IF get_pos(l) + scroll_step(l) >= l.rows
                    THEN l.rows - 1
                    ELSE get_pos(l) + scroll_step(l)>>)
    ELSE move_pos(l, TRUE,
             <<IF get_pos(l) - scroll_step(l) < 0 THEN 0
               ELSE get_pos(l) - scroll_step(l)>>)

\* mutant of clamp_width: the lower limit is missing
clamp_width_upper_only(l) ==
    IF l.width > l.winsize - 200 THEN [l EXCEPT !.width = l.winsize - 200]
    ELSE l

\* the limits of lines 351-354
clamp_width(l) ==
    IF l.width > l.winsize - 200 THEN [l EXCEPT !.width = l.winsize - 200]
    ELSE IF l.width < 100 THEN [l EXCEPT !.width = 100]
    ELSE l

\* resize(inc, require_val, val); val is <<>> for None and for ""
resize(l, inc, require_val, val) ==
    IF require_val
    THEN IF val = <<>> THEN clamp_width([l EXCEPT !.width = l.default_width])
         ELSE IF ~ParseInt(val).ok
              THEN err_message(l, "Library width must be an integer")
         ELSE clamp_width([l EXCEPT !.width = ParseInt(val).val])
    ELSE LET step == IF val = <<>> THEN [ok |-> TRUE, val |-> 20]
                     ELSE ParseInt(val)
         IN  IF ~step.ok
             THEN err_message(l, "Library width must be an integer")
             ELSE IF inc THEN clamp_width([l EXCEPT !.width = @ + step.val])
             ELSE clamp_width([l EXCEPT !.width = @ - step.val])

\* Library.__init__(app, settings) in the working directory cwd, and the
\* first listing
new_library(cwd, settings_library, show_hidden, winsize) ==
    set_model(
        [cwd |-> cwd,
         files |-> <<>>,
         filesize |-> <<>>,
         dir_pos |-> <<>>,
         show_hidden |-> show_hidden,
         default_width |-> settings_library.library_width,
         width |-> settings_library.library_width - settings_library.border_width,
         file_check_amount |-> settings_library.file_check_amount,
         visible |-> settings_library.show_library,
         cursor |-> 0,
         focus |-> "image",
         num_str |-> <<>>,
         search_positions |-> <<>>,
         running |-> FALSE,
         paths |-> <<>>,
         index |-> 0,
         winsize |-> winsize,
         rows |-> 0,
         tags_last |-> <<>>,
         err |-> <<>>,
         exc |-> <<>>,
         disk |-> [k \in {key \in DOMAIN Liststores :
                               key[3] = settings_library.file_check_amount}
                      |-> Liststores[k]],
         dirs |-> EnterableDirs])

(***************************************************************************)
(* State.                                                                   *)
(*   files     the configuration files that exist, in the order read        *)
(*   config    the ConfigParser: its sections [name, opts] in the order     *)
(*             read, opts being the options [name, raw] in order            *)
(*   todo      the sections still to overlay (the list "keys")              *)
(*   settings  the Settings Store                                           *)
(*   message   the accumulated error text, one record per warning           *)
(*   raised    the exception that left the operation, "none" if it returned *)
(*   done      the options the last overwrite_section loop has finished with*)
(*   pc        the position of the operation                                *)
(*   keybindings  the dictionary parse_keys returns                         *)
(*   exit_status  the status of sys.exit, once pc = "exited"                *)
(*   basedir   the argument of parse_dirs                                   *)
(*   fsdirs    the paths that are directories                               *)
(*   fsfiles   the paths that exist and are no directories                  *)
(*   calls     the calls of parse_dirs made so far                          *)
(*   lib       the Library and the components it calls, <<>> before the     *)
(*             Library is constructed                                       *)
(***************************************************************************)
VARIABLES files, config, todo, settings, message, raised, done, pc,
          keybindings, exit_status, basedir, fsdirs, fsfiles, calls, lib

dirvars == <<basedir, fsdirs, fsfiles, calls>>

cfgvars == <<files, config, todo, settings, message, raised, done, pc,
             keybindings, exit_status>>

vars == <<cfgvars, dirvars, lib>>

\* parse_dirs has not been called
NoDirs ==
    /\ basedir = <<>>
    /\ fsdirs = {}
    /\ fsfiles = {}
    /\ calls = 0
    /\ lib = <<>>

(***************************************************************************)
(* Inputs of the overlay: the raw strings and option names a section of a   *)
(* configuration file is drawn from.                                        *)
(***************************************************************************)
MaxOpts == 2

RawValues ==
    {<<"1", "2">>,
     <<"-", "3">>,
     <<"1">>,
     <<"x">>,
     <<"5", "%">>,
     <<"5", "%", "%">>,
     <<"y", "e", "s">>,
     <<"T", "r", "u", "e">>,
     <<"F", "a", "l", "s", "e">>,
     <<"(", "1", ",", " ", "2", ")">>,
     <<"(", "-", "3", ",", " ", "1", "2", ")">>,
     <<"1", ",", "2", ",", "3">>,
     <<"1", ",", "x">>,
     <<"<", "s", "p", "a", "n", " ", "b", ">">>,
     <<"/", "d">>,
     <<"~", "/", "d">>,
     <<"/", "n">>,
     <<>>}

\* raw strings tried with every setting name
CoreRaws ==
    {<<"1", "2">>,
     <<"x">>,
     <<"y", "e", "s">>,
     <<"5", "%">>}

\* names that are no setting of the section they are written in
UnknownNames == {"zoom", "shuffle", "show_hidden"}

\* settings tried with every raw string
FocusNames == {"default_thumbsize", "geometry", "slideshow_delay", "shuffle",
               "markup", "desktop_start_dir", "library_width", "show_hidden"}

SectionKeys == {"GENERAL", "LIBRARY"}

OptionNames(key) == (DOMAIN set_defaults[key]) \cup UnknownNames

Options(key) ==
    {[name |-> n, raw |-> r] : n \in OptionNames(key), r \in CoreRaws}
    \cup {[name |-> n, raw |-> r] :
            n \in FocusNames \cap DOMAIN set_defaults[key], r \in RawValues}

\* an option name occurs once in a section of a ConfigParser
DistinctNames(section) ==
    \A i, j \in 1..Len(section) : section[i].name = section[j].name => i = j

Sections(key) ==
    {s \in UNION {[1..n -> Options(key)] : n \in 0..MaxOpts} : DistinctNames(s)}

(***************************************************************************)
(* One call overwrite_section(key, config, settings) on the defaults.       *)
(***************************************************************************)
InitOverlay ==
    /\ NoDirs
    /\ files = <<>>
    /\ \E key \in SectionKeys :
         /\ todo = <<key>>
         /\ \E s \in Sections(key) : config = <<[name |-> key, opts |-> s]>>
    /\ settings = set_defaults
    /\ message = <<>>
    /\ raised = "none"
    /\ done = 0
    /\ pc = "call"
    /\ keybindings = <<>>
    /\ exit_status = 0

OverwriteSectionCall ==
    /\ UNCHANGED <<dirvars, lib>>
    /\ pc = "call"
    /\ LET r == overwrite_section(todo[1], config, settings)
       IN  /\ settings' = r.settings
           /\ message' = r.message
           /\ raised' = r.raised
           /\ done' = r.done
           /\ pc' = IF r.raised = "none" THEN "returned" ELSE "raised"
    /\ UNCHANGED <<files, config, todo, keybindings, exit_status>>

NextOverlay == OverwriteSectionCall

SpecOverlay == InitOverlay /\ [][NextOverlay]_vars


(***************************************************************************)
(* Properties of overwrite_section, checked under SpecOverlay.  They are    *)
(* action properties of the call: unprimed variables are the state before   *)
(* the call, primed ones the state it leaves.  Option i of the section was  *)
(* started when i <= done' + 1 and finished when i <= done'.                *)
(***************************************************************************)
\* the values the round trip is tried with
IntValues == {0 - 3, 1, 12}

TupleValues == {<<1, 2>>, <<0 - 3, 12>>}

\* the settings of a section that are neither integer, tuple nor string
BoolKeys(key) ==
    (DOMAIN set_defaults[key]) \ (IntKeys \cup ThumbsizeKeys \cup StringKeys)

TypedValues(setting) ==
    IF setting \in IntKeys THEN IntValues
    ELSE IF setting \in ThumbsizeKeys THEN TupleValues
    ELSE IF setting \in StringKeys THEN RawValues
    ELSE BOOLEAN

NoPercent(raw) == \A k \in 1..Len(raw) : raw[k] # "%"

\* the positions of the warnings of a message that name a setting
WarningsFor(msg, setting) == {j \in 1..Len(msg) : msg[j].setting = setting}

\* exactly two comma-separated integers inside an optional parenthesis pair
WellFormedThumbsize(v) ==
    LET inner == IF Len(v) >= 2 /\ v[1] = "(" /\ v[Len(v)] = ")"
                 THEN SubSeq(v, 2, Len(v) - 1)
                 ELSE v
        parts == Split(inner, ",")
    IN  Len(parts) = 2 /\ ParseInt(parts[1]).ok /\ ParseInt(parts[2]).ok

\* C2 (as claimed): a raw value of an integer or boolean setting that does
\* not parse leaves the setting as it was before the call, appends exactly
\* one fallback warning, which quotes the raw string, and the loop goes on
\* to the other options of the section.
C2Claim ==
    [][OverwriteSectionCall =>
        \A i \in 1..Len(SectionOptions(config, todo[1])) :
          LET key == todo[1]
              o == SectionOptions(config, todo[1])[i]
          IN  (/\ i <= done' + 1
               /\ o.name \in DOMAIN settings[key]
               /\ \/ o.name \in IntKeys /\ ~ParseInt(o.raw).ok
                  \/ o.name \in BoolKeys(key) /\ ~ConvertToBoolean(o.raw).ok)
              => /\ settings'[key][o.name] = settings[key][o.name]
                 /\ Cardinality(WarningsFor(message', o.name)) = 1
                 /\ \A j \in WarningsFor(message', o.name) :
                      /\ message'[j].kind = "invalid"
                      /\ message'[j].raw \in {o.raw, Interpolate(o.raw).val}
                 /\ i <= done']_vars

\* C3 (as claimed): a default_thumbsize value that is not two comma-separated
\* integers in an optional parenthesis pair leaves the tuple as it was,
\* appends the fallback warning, and the overlay carries on and returns.
C3Claim ==
    [][OverwriteSectionCall =>
        \A i \in 1..Len(SectionOptions(config, todo[1])) :
          LET key == todo[1]
              o == SectionOptions(config, todo[1])[i]
          IN  (/\ i <= done' + 1
               /\ o.name = "default_thumbsize"
               /\ o.name \in DOMAIN settings[key]
               /\ NoPercent(o.raw)
               /\ ~WellFormedThumbsize(o.raw))
              => /\ settings'[key][o.name] = settings[key][o.name]
                 /\ \E j \in WarningsFor(message', o.name) :
                      message'[j].kind = "invalid" /\ message'[j].raw = o.raw
                 /\ i <= done']_vars

\* C4: an option whose name is no setting of its section adds no key to the
\* Settings Store and changes no value (every value that differs after the
\* call belongs to a known setting named in the section), and the message
\* holds exactly one warning naming it, the unknown-setting warning.
C4UnknownKeyIgnored ==
    [][OverwriteSectionCall =>
        \A i \in 1..Len(SectionOptions(config, todo[1])) :
          LET key == todo[1]
              section == SectionOptions(config, todo[1])
              o == SectionOptions(config, todo[1])[i]
          IN  (i <= done' + 1 /\ o.name \notin DOMAIN set_defaults[key])
              => /\ DOMAIN settings' = DOMAIN settings
                 /\ \A k \in DOMAIN settings :
                      /\ DOMAIN settings'[k] = DOMAIN settings[k]
                      /\ \A n \in DOMAIN settings[k] :
                           settings'[k][n] # settings[k][n]
                           => /\ k = key
                              /\ n # o.name
                              /\ \E j \in 1..Len(section) : section[j].name = n
                 /\ Cardinality(WarningsFor(message', o.name)) = 1
                 /\ \A j \in WarningsFor(message', o.name) :
                      message'[j].kind = "unknown"]_vars

\* C4 witness: a call that met an unknown name, warned once and still
\* changed another setting of the section has returned.
C4Witness ==
    /\ pc = "returned"
    /\ Len(message) = 1
    /\ message[1].kind = "unknown"
    /\ \E i \in 1..Len(SectionOptions(config, todo[1])) :
         /\ SectionOptions(config, todo[1])[i].name \notin DOMAIN set_defaults[todo[1]]
         /\ message[1].setting = SectionOptions(config, todo[1])[i].name
    /\ settings # set_defaults

\* C9 (as claimed): for every setting and every value x of its type, the raw
\* string str(x) makes the call set the setting to x without a warning.
C9Claim ==
    [][OverwriteSectionCall =>
        \A i \in 1..Len(SectionOptions(config, todo[1])) :
          LET key == todo[1]
              o == SectionOptions(config, todo[1])[i]
          IN  (i <= done' + 1 /\ o.name \in DOMAIN set_defaults[key])
              => \A x \in TypedValues(o.name) :
                   o.raw = ValueStr(o.name, x)
                   => /\ settings'[key][o.name] = x
                      /\ WarningsFor(message', o.name) = {}]_vars

\* the string values for which the round trip holds
StringRoundTrips(setting, x) ==
    /\ NoPercent(x)
    /\ setting = "markup"
       => StartsWith(x, <<"<", "s", "p", "a", "n", " ">>) /\ EndsWith(x, <<">">>)
    /\ setting = "desktop_start_dir"
       => x \in ExistingDirs /\ (x = <<>> \/ x[1] # "~")

\* C9 (amended): the round trip holds for every boolean, integer and tuple
\* setting and every value of its type; for the string settings it holds for
\* the strings without "%" that are, for markup, of the form "<span ...>"
\* and, for desktop_start_dir, an existing directory not written with "~".
C9RoundTrip ==
    [][OverwriteSectionCall =>
        \A i \in 1..Len(SectionOptions(config, todo[1])) :
          LET key == todo[1]
              o == SectionOptions(config, todo[1])[i]
          IN  (i <= done' + 1 /\ o.name \in DOMAIN set_defaults[key])
              => \A x \in TypedValues(o.name) :
                   (/\ o.raw = ValueStr(o.name, x)
                    /\ o.name \in StringKeys => StringRoundTrips(o.name, x))
                   => /\ settings'[key][o.name] = x
                      /\ WarningsFor(message', o.name) = {}
                      /\ i <= done']_vars

\* C9 witness: a section holding str((-3, 12)) for default_thumbsize and
\* str(12) for an integer setting was overlaid and both came back typed.
C9Witness ==
    /\ pc = "returned"
    /\ message = <<>>
    /\ \E i, j \in 1..Len(SectionOptions(config, todo[1])) :
         /\ SectionOptions(config, todo[1])[i].name = "default_thumbsize"
         /\ SectionOptions(config, todo[1])[i].raw = TupleToStr(<<0 - 3, 12>>)
         /\ settings[todo[1]]["default_thumbsize"] = <<0 - 3, 12>>
         /\ SectionOptions(config, todo[1])[j].name \in IntKeys
         /\ SectionOptions(config, todo[1])[j].raw = IntToStr(12)
         /\ settings[todo[1]][SectionOptions(config, todo[1])[j].name] = 12

\* C10: a desktop_start_dir value whose user-expanded path is no existing
\* directory leaves desktop_start_dir as it was before the call, and no
\* warning of the message names it.
C10MissingDirKept ==
    [][OverwriteSectionCall =>
        \A i \in 1..Len(SectionOptions(config, todo[1])) :
          LET key == todo[1]
              o == SectionOptions(config, todo[1])[i]
          IN  (/\ o.name = "desktop_start_dir"
               /\ o.name \in DOMAIN set_defaults[key]
               /\ Interpolate(o.raw).ok
               /\ ExpandUser(Interpolate(o.raw).val) \notin ExistingDirs)
              => /\ settings'[key][o.name] = settings[key][o.name]
                 /\ WarningsFor(message', o.name) = {}]_vars

\* C10 witness: a call started with desktop_start_dir set to a path that does
\* not exist, went past it and applied a later option of the section.
C10Witness ==
    /\ pc = "returned"
    /\ todo[1] = "LIBRARY"
    /\ Len(SectionOptions(config, "LIBRARY")) = 2
    /\ SectionOptions(config, "LIBRARY")[1].name = "desktop_start_dir"
    /\ SectionOptions(config, "LIBRARY")[1].raw = <<"/", "n">>
    /\ settings["LIBRARY"]["desktop_start_dir"] = Home
    /\ settings # set_defaults
    /\ message = <<>>


(***************************************************************************)
(* Inputs of parse_config: the configuration files.                         *)
(***************************************************************************)
MaxFiles == 2

\* the options written in the GENERAL sections of the files
FileOptions ==
    {[name |-> "slideshow_delay", raw |-> <<"1", "2">>],
     [name |-> "slideshow_delay", raw |-> <<"x">>],
     [name |-> "default_thumbsize", raw |-> <<"(", "1", ",", " ", "2", ")">>],
     [name |-> "default_thumbsize", raw |-> <<"1", ",", "2", ",", "3">>],
     [name |-> "default_thumbsize", raw |-> <<"1">>],
     [name |-> "shuffle", raw |-> <<"y", "e", "s">>],
     [name |-> "shuffle", raw |-> <<"x">>]}

GeneralSections ==
    {[name |-> "GENERAL", opts |-> o] :
        o \in {q \in UNION {[1..n -> FileOptions] : n \in 0..MaxOpts} :
                  DistinctNames(q)}}

LibrarySections ==
    {[name |-> "LIBRARY", opts |-> <<[name |-> "show_hidden", raw |-> <<"y", "e", "s">>]>>]}

AliasSections ==
    {[name |-> "ALIASES", opts |-> <<[name |-> "q", raw |-> r]>>] :
        r \in {<<"1", "2">>, <<"5", "%">>}}

\* none or one of the sections of a set
Optional(sections) == {<<>>} \cup {<<x>> : x \in sections}

\* a file holds a GENERAL section, a LIBRARY or ALIASES section, or both
FileSections ==
    {g \o x : g \in Optional(GeneralSections),
              x \in Optional(LibrarySections \cup AliasSections)}

ConfigFiles ==
    {[kind |-> k, sects |-> x] : k \in {"ok", "ParsingError"}, x \in FileSections}
    \cup {[kind |-> k, sects |-> <<>>] :
            k \in {"missing", "MissingSectionHeaderError", "UnicodeDecodeError",
                   "DuplicateOptionError", "DuplicateSectionError"}}

InitConfig ==
    /\ NoDirs
    /\ files \in UNION {[1..n -> ConfigFiles] : n \in 0..MaxFiles}
    /\ config = <<>>
    /\ todo = <<>>
    /\ settings = set_defaults
    /\ message = <<>>
    /\ raised = "none"
    /\ done = 0
    /\ pc = "start"
    /\ keybindings = <<>>
    /\ exit_status = 0

\* config.read(configfiles) inside its try block, then the list of keys
ReadConfig ==
    /\ UNCHANGED <<dirvars, lib>>
    /\ pc = "start"
    /\ LET r == ReadFiles(files, 1, <<>>, 0)
       IN  /\ config' = r.config
           /\ IF r.exc = "none"
              THEN /\ message' = message
                   /\ raised' = "none"
                   /\ todo' = OverlayKeys(r.config)
                   /\ pc' = "overlay"
              ELSE IF r.exc \in CaughtByParseConfig
              THEN /\ message' = Append(message, ReadWarning(r.exc))
                   /\ raised' = "none"
                   /\ todo' = OverlayKeys(r.config)
                   /\ pc' = "overlay"
              ELSE /\ message' = message
                   /\ raised' = r.exc
                   /\ todo' = <<>>
                   /\ pc' = "raised"
    /\ UNCHANGED <<files, settings, done, keybindings, exit_status>>

\* one turn of "for key in keys": overwrite_section and message += partial
OverlaySection ==
    /\ UNCHANGED <<dirvars, lib>>
    /\ pc = "overlay"
    /\ todo # <<>>
    /\ LET r == overwrite_section(todo[1], config, settings)
       IN  /\ settings' = r.settings
           /\ done' = r.done
           /\ raised' = r.raised
           /\ IF r.raised = "none"
              THEN /\ message' = message \o r.message
                   /\ todo' = Tail(todo)
                   /\ pc' = "overlay"
              ELSE /\ message' = message
                   /\ todo' = todo
                   /\ pc' = "raised"
    /\ UNCHANGED <<files, config, keybindings, exit_status>>

\* add_aliases, the popup of the message, and the return of the settings
AddAliasesAndReturn ==
    /\ UNCHANGED <<dirvars, lib>>
    /\ pc = "overlay"
    /\ todo = <<>>
    /\ LET r == add_aliases(config, settings)
       IN  /\ settings' = r.settings
           /\ message' = message \o r.message
    /\ pc' = "returned"
    /\ UNCHANGED <<files, config, todo, raised, done, keybindings, exit_status>>

NextConfig == ReadConfig \/ OverlaySection \/ AddAliasesAndReturn

SpecConfig == InitConfig /\ [][NextConfig]_vars


(***************************************************************************)
(* Properties of parse_config, checked under SpecConfig.                    *)
(***************************************************************************)
\* the raw strings a file gives to a setting of a section
FileRaws(f, sec, k) ==
    {f.sects[a].opts[b].raw :
        <<a, b>> \in {x \in (1..Len(f.sects)) \X (1..MaxOpts) :
                        /\ f.sects[x[1]].name = sec
                        /\ x[2] <= Len(f.sects[x[1]].opts)
                        /\ f.sects[x[1]].opts[x[2]].name = k}}

\* the typed settings of a section: integer, tuple and boolean
TypedKeys(sec) == (DOMAIN set_defaults[sec]) \ StringKeys

\* file i sets k to the valid string r1, the later file j sets it to the
\* invalid string r2, both files are read, and no file after j sets k
ValidThenInvalid(i, j, sec, k, r1, r2) ==
    /\ i < j
    /\ \A m \in 1..j : files[m].kind \in {"ok", "missing"}
    /\ r1 \in FileRaws(files[i], sec, k)
    /\ r2 \in FileRaws(files[j], sec, k)
    /\ ParseSetting(k, r1).out = "set"
    /\ ParseSetting(k, r2).out # "set"
    /\ \A m \in (j + 1)..Len(files) : FileRaws(files[m], sec, k) = {}

\* C1 (as claimed): when an earlier file sets a typed key to a valid value v
\* and a later file sets it to an invalid string, parse_config returns v for
\* the key, and a fallback warning for the key is in the message.
C1Claim ==
    pc = "returned" =>
        \A i, j \in 1..Len(files) : \A sec \in SectionKeys :
          \A k \in TypedKeys(sec) :
            \A r1 \in FileRaws(files[i], sec, k) :
              \A r2 \in FileRaws(files[j], sec, k) :
                ValidThenInvalid(i, j, sec, k, r1, r2)
                => /\ settings[sec][k] = ParseSetting(k, r1).val
                   /\ \E w \in WarningsFor(message, k) : message[w].kind = "invalid"

\* C1 (amended): in that case the setting ends as the hard-coded default, not
\* v, because the parser merges the files before the overlay; when
\* parse_config returns, the message holds one fallback warning for the key,
\* quoting the later string and the default; otherwise the overlay raised
\* IndexError or InterpolationSyntaxError (C3, C2).
C1FallsBackToDefault ==
    pc \in {"returned", "raised"} =>
        \A i, j \in 1..Len(files) : \A sec \in SectionKeys :
          \A k \in TypedKeys(sec) :
            \A r1 \in FileRaws(files[i], sec, k) :
              \A r2 \in FileRaws(files[j], sec, k) :
                ValidThenInvalid(i, j, sec, k, r1, r2)
                => /\ settings[sec][k] = set_defaults[sec][k]
                   /\ pc = "returned"
                      => /\ Cardinality(WarningsFor(message, k)) = 1
                         /\ \A w \in WarningsFor(message, k) :
                              message[w] =
                                FallbackWarning(r2, k,
                                    ValueStr(k, set_defaults[sec][k]))
                   /\ pc = "raised"
                      => raised \in {"IndexError", "InterpolationSyntaxError"}

\* C1 witness: the first file set slideshow_delay to 12, the second to "x",
\* and parse_config returned the default 2 with the warning.
C1Witness ==
    /\ pc = "returned"
    /\ Len(files) = 2
    /\ <<"1", "2">> \in FileRaws(files[1], "GENERAL", "slideshow_delay")
    /\ <<"x">> \in FileRaws(files[2], "GENERAL", "slideshow_delay")
    /\ files[1].kind = "ok" /\ files[2].kind = "ok"
    /\ settings["GENERAL"]["slideshow_delay"] = 2
    /\ WarningsFor(message, "slideshow_delay") # {}

\* the exceptions the parser raises on a malformed file
MalformedKinds ==
    {"ParsingError", "MissingSectionHeaderError", "UnicodeDecodeError",
     "DuplicateOptionError", "DuplicateSectionError"}

\* C5 (as claimed): once the files are read, the first malformed file is
\* reported in the message and its exception has not left parse_config.
C5Claim ==
    pc # "start" =>
        \A i \in 1..Len(files) :
          (/\ files[i].kind \in MalformedKinds
           /\ \A m \in 1..(i - 1) : files[m].kind \notin MalformedKinds)
          => /\ raised # files[i].kind
             /\ \E w \in 1..Len(message) : message[w].kind = files[i].kind


(***************************************************************************)
(* Inputs of parse_keys: the keys files.                                    *)
(***************************************************************************)
MaxBinds == 2

\* the sections of a keys file that hold bindings in the model
BindableSections ==
    {"IMAGE", "THUMBNAIL", "LIBRARY", "GENERAL", "IM_THUMB", "IM_LIB"}

KeySectionOrder ==
    RequiredSections \o <<"GENERAL", "IM_THUMB", "IM_LIB">>

KeyName == "j"

Commands == {<<"a">>, <<"b">>}

\* the bindings of a file: a command for the key in at most MaxBinds sections
FileBindings ==
    UNION {[S -> Commands] :
              S \in {T \in SUBSET BindableSections : Cardinality(T) <= MaxBinds}}

\* the sections of a keys file that lacks the required section "dropped"
\* ("none": lacks none) and binds the key as binds says; a deprecated
\* section is in the file when it binds the key
KeySections(dropped, binds) ==
    LET InFile(n) ==
            /\ n # dropped
            /\ n \in {"GENERAL", "IM_THUMB", "IM_LIB"} => n \in DOMAIN binds
        names == SelectSeq(KeySectionOrder, InFile)
    IN  [i \in 1..Len(names) |->
            [name |-> names[i],
             opts |-> IF names[i] \in DOMAIN binds
                      THEN <<[name |-> KeyName, raw |-> binds[names[i]]]>>
                      ELSE <<>>]]

KeyFiles ==
    {[kind |-> "ok", sects |-> KeySections(d, b)] :
        <<d, b>> \in {x \in ({"none"} \cup {RequiredSections[i] :
                                   i \in 1..Len(RequiredSections)})
                             \X FileBindings : x[1] \notin DOMAIN x[2]}}
    \cup {[kind |-> k, sects |-> <<>>] :
            k \in {"missing", "ParsingError", "MissingSectionHeaderError",
                   "UnicodeDecodeError", "DuplicateOptionError",
                   "DuplicateSectionError"}}

InitKeys ==
    /\ NoDirs
    /\ files \in UNION {[1..n -> KeyFiles] : n \in 0..MaxFiles}
    /\ config = <<>>
    /\ todo = <<>>
    /\ settings = set_defaults
    /\ message = <<>>
    /\ raised = "none"
    /\ done = 0
    /\ pc = "start"
    /\ keybindings = <<>>
    /\ exit_status = 0

\* keys.read(keyfiles) inside its try block (lines 197-207)
ReadKeys ==
    /\ UNCHANGED <<dirvars, lib>>
    /\ pc = "start"
    /\ LET r == ReadFiles(files, 1, <<>>, 0)
       IN  /\ config' = r.config
           /\ IF r.exc = "none" /\ r.nread = 0
              THEN /\ message' = Append(message, ExitMessage("Keyfile not found"))
                   /\ exit_status' = 1
                   /\ raised' = "none"
                   /\ pc' = "exited"
              ELSE IF r.exc = "DuplicateOptionError"
              THEN /\ message' = Append(message, ExitMessage("Duplicate keybinding"))
                   /\ exit_status' = 1
                   /\ raised' = "none"
                   /\ pc' = "exited"
              ELSE IF r.exc # "none"
              THEN /\ message' = message
                   /\ exit_status' = exit_status
                   /\ raised' = r.exc
                   /\ pc' = "raised"
              ELSE /\ message' = message
                   /\ exit_status' = exit_status
                   /\ raised' = "none"
                   /\ pc' = "sections"
    /\ UNCHANGED <<files, todo, settings, done, keybindings>>

\* the lookups of the five sections (lines 210-220)
GetSections ==
    /\ UNCHANGED <<dirvars, lib>>
    /\ pc = "sections"
    /\ IF FirstMissingSection(config) # 0
       THEN /\ message' = Append(message,
                  MissingSectionMessage(RequiredSections[FirstMissingSection(config)]))
            /\ exit_status' = 1
            /\ pc' = "exited"
       ELSE /\ message' = message
            /\ exit_status' = exit_status
            /\ pc' = "update"
    /\ UNCHANGED <<files, config, todo, settings, raised, done, keybindings>>

\* the three update_keybindings calls and the return (lines 231-241)
UpdateAndReturn ==
    /\ UNCHANGED <<dirvars, lib>>
    /\ pc = "update"
    /\ keybindings' = Keybindings(config)
    /\ pc' = "returned"
    /\ UNCHANGED <<files, config, todo, settings, message, raised, done,
                   exit_status>>

NextKeys == ReadKeys \/ GetSections \/ UpdateAndReturn

SpecKeys == InitKeys /\ [][NextKeys]_vars


(***************************************************************************)
(* Properties of parse_keys, checked under SpecKeys.                        *)
(***************************************************************************)
Modes == {RequiredSections[i] : i \in 1..Len(RequiredSections)}

\* the commands a dictionary of bindings holds for a key
Lookup(opts, n) == {opts[i].raw : i \in {x \in 1..Len(opts) : opts[x].name = n}}

\* the readable files that bind key n in section sec
Binders(sec, n) ==
    {i \in 1..Len(files) : files[i].kind = "ok" /\ FileRaws(files[i], sec, n) # {}}

\* the command the last of those files gives
LastRaw(sec, n) ==
    LET last == CHOOSE i \in Binders(sec, n) : \A m \in Binders(sec, n) : m <= i
    IN  CHOOSE r \in FileRaws(files[last], sec, n) : TRUE

\* a window's own section followed by the shared sections applied to it
Chain(mode) == <<mode>> \o SharedSections(mode)

\* the command of the last section of the chain that binds n, if any
ChainCommand(mode, n) ==
    LET bound == {c \in 1..Len(Chain(mode)) : Binders(Chain(mode)[c], n) # {}}
    IN  IF bound = {} THEN {}
        ELSE {LastRaw(Chain(mode)[CHOOSE c \in bound : \A d \in bound : d <= c], n)}

\* the first file on which the parser raises, 0 if there is none
FirstMalformed ==
    IF \A i \in 1..Len(files) : files[i].kind \in {"ok", "missing"} THEN 0
    ELSE CHOOSE i \in 1..Len(files) :
           /\ files[i].kind \notin {"ok", "missing"}
           /\ \A m \in 1..(i - 1) : files[m].kind \in {"ok", "missing"}

NoKeyFile == \A i \in 1..Len(files) : files[i].kind = "missing"

HasDuplicateOption ==
    FirstMalformed # 0 /\ files[FirstMalformed].kind = "DuplicateOptionError"

\* the required sections that no file holds
LackingSections ==
    {r \in Modes :
        \A i \in 1..Len(files) :
          \A a \in 1..Len(files[i].sects) : files[i].sects[a].name # r}

LacksSection == FirstMalformed = 0 /\ ~NoKeyFile /\ LackingSections # {}

\* C6 (as claimed): parse_keys exits with a non-zero status when no keys file
\* exists, when the keys file has a duplicate option, or when one of the five
\* sections is missing (the message then names a missing section); in every
\* other case it returns a mapping with exactly the five modes.
C6Claim ==
    pc \in {"exited", "returned", "raised"} =>
        IF NoKeyFile \/ HasDuplicateOption \/ LacksSection
        THEN /\ pc = "exited"
             /\ exit_status # 0
             /\ LacksSection
                => \E w \in 1..Len(message) :
                     /\ message[w].kind = "missing section"
                     /\ message[w].setting \in LackingSections
        ELSE /\ pc = "returned"
             /\ DOMAIN keybindings = Modes

\* C7 (as claimed): with several keys files, every binding returned is a
\* binding of the first file found (of the window's section or of a shared
\* section applied to it).
C7Claim ==
    pc = "returned" =>
        LET first == CHOOSE i \in 1..Len(files) :
                       /\ files[i].kind # "missing"
                       /\ \A m \in 1..(i - 1) : files[m].kind = "missing"
        IN  \A mode \in Modes :
              \A b \in 1..Len(keybindings[mode]) :
                \E c \in 1..Len(Chain(mode)) :
                  keybindings[mode][b].raw
                    \in FileRaws(files[first], Chain(mode)[c],
                                 keybindings[mode][b].name)

\* C7 (amended): every keys file that exists is read, in the order of the
\* candidate paths, and the files are merged section by section: a key bound
\* in one section by several files has the command of the last of them, and
\* the mapping returned for a window holds, for the key, that command of the
\* last section of its chain (own section, then its shared sections) that
\* binds the key in any file.
C7FilesMerged ==
    pc = "returned" =>
        /\ DOMAIN keybindings = Modes
        /\ \A mode \in Modes :
             /\ Lookup(keybindings[mode], KeyName) = ChainCommand(mode, KeyName)
             /\ \A b \in 1..Len(keybindings[mode]) :
                  keybindings[mode][b].name = KeyName

\* C7 witness: two files bind the key in [IMAGE], to "a" and then to "b";
\* parse_keys returned "b" for the image window.
C7Witness ==
    /\ pc = "returned"
    /\ Len(files) = 2
    /\ files[1].kind = "ok" /\ files[2].kind = "ok"
    /\ FileRaws(files[1], "IMAGE", KeyName) = {<<"a">>}
    /\ FileRaws(files[2], "IMAGE", KeyName) = {<<"b">>}
    /\ Lookup(keybindings["IMAGE"], KeyName) = {<<"b">>}

\* C8 (as claimed): a key bound in a window's own section and in a shared
\* section applied to that window keeps the command of the own section.
C8Claim ==
    pc = "returned" =>
        \A mode \in {"IMAGE", "THUMBNAIL", "LIBRARY"} :
          (/\ Binders(mode, KeyName) # {}
           /\ \E c \in 1..Len(SharedSections(mode)) :
                Binders(SharedSections(mode)[c], KeyName) # {})
          => Lookup(keybindings[mode], KeyName) = {LastRaw(mode, KeyName)}

(***************************************************************************)
(* parse_dirs: calls on one base directory, from the file systems in which  *)
(* the base directory, its parent and the three subdirectories are each a   *)
(* directory, a regular file or absent (nothing exists below a path that is *)
(* no directory).                                                           *)
(***************************************************************************)
MaxCalls == 2

BaseDirs == {<<"~", "/", "v">>, <<"/", "h", "/", "v">>, <<"/", "t", "/", "v">>}

PathKinds == {"absent", "dir", "file"}

\* the paths of the given kind when the parent of the base directory is of
\* kind pk, the base directory of kind bk and subdirectory i of kind sk[i]
PathsOfKind(base, kind, pk, bk, sk) ==
    LET dirs == RequiredDirs(base)
    IN  {Dirname(dirs[1]) : x \in {k \in {pk} : k = kind}}
        \cup {dirs[1] : x \in {k \in {bk} : k = kind}}
        \cup {dirs[i + 1] : i \in {j \in 1..Len(SubdirNames) : sk[j] = kind}}

InitDirs ==
    /\ files = <<>>
    /\ config = <<>>
    /\ todo = <<>>
    /\ settings = set_defaults
    /\ message = <<>>
    /\ done = 0
    /\ keybindings = <<>>
    /\ exit_status = 0
    /\ raised = "none"
    /\ pc = "start"
    /\ calls = 0
    /\ lib = <<>>
    /\ \E base \in BaseDirs, pk \in PathKinds, bk \in PathKinds,
          sk \in [1..Len(SubdirNames) -> PathKinds] :
         /\ Dirname(ExpandUser(base)) = Home => pk = "dir"
         /\ pk # "dir" => bk = "absent"
         /\ bk # "dir" => \A i \in 1..Len(SubdirNames) : sk[i] = "absent"
         /\ basedir = base
         /\ fsdirs = {<<"/">>, Home} \cup PathsOfKind(base, "dir", pk, bk, sk)
         /\ fsfiles = PathsOfKind(base, "file", pk, bk, sk)

\* one call parse_dirs(basedir)
ParseDirsCall ==
    /\ calls < MaxCalls
    /\ LET r == parse_dirs(basedir, fsdirs, fsfiles)
       IN  /\ fsdirs' = r.dirs
           /\ raised' = r.exc
           /\ pc' = IF r.exc = "none" THEN "returned" ELSE "raised"
    /\ calls' = calls + 1
    /\ UNCHANGED <<files, config, todo, settings, message, done, keybindings,
                   exit_status, basedir, fsfiles, lib>>

NextDirs == ParseDirsCall

SpecDirs == InitDirs /\ [][NextDirs]_vars

AllDirsExist == \A i \in 1..4 : RequiredDirs(basedir)[i] \in fsdirs

\* C11: after a call of parse_dirs that returns, the base directory and its
\* Tags, Thumbnails and Trash subdirectories are directories, and a call that
\* follows a call that returned returns too and leaves the file system as it
\* was.
C11DirsExistIdempotent ==
    [][ParseDirsCall =>
          /\ pc' = "returned" => AllDirsExist'
          /\ pc = "returned" =>
                /\ pc' = "returned"
                /\ fsdirs' = fsdirs
                /\ fsfiles' = fsfiles]_vars

\* a second call has returned after a first one that returned
C11Witness == calls = 2 /\ pc = "returned" /\ AllDirsExist

(***************************************************************************)
(* The Library in use: the handlers the key bindings and the other          *)
(* components call, one call per step, each on the state the call before    *)
(* left.                                                                    *)
(***************************************************************************)
MaxNumLen == 1

\* the digits typed as a numeric prefix
PrefixDigits == {"0", "3"}

\* the directories move_up is called with: the parent, the entries that are
\* directories, and a name that does not exist
MoveTargets == {<<".", ".">>, <<"b">>, <<"c">>, <<"z">>, <<"q">>}

\* the image lists the application was started with
StartPaths == {<<>>, << <<"/", "i">> >>, << <<"/", "b", "/", "i">> >>}

WindowWidth == 800

\* the parser and parse_dirs are not in use
NoConfig ==
    /\ files = <<>>
    /\ config = <<>>
    /\ todo = <<>>
    /\ settings = set_defaults
    /\ message = <<>>
    /\ raised = "none"
    /\ done = 0
    /\ pc = "library"
    /\ keybindings = <<>>
    /\ exit_status = 0
    /\ basedir = <<>>
    /\ fsdirs = {}
    /\ fsfiles = {}
    /\ calls = 0

InitLibrary ==
    /\ NoConfig
    /\ \E show_library \in BOOLEAN, show_hidden \in BOOLEAN,
          paths \in StartPaths, running \in BOOLEAN :
         /\ running => paths # <<>>
         /\ lib = [new_library(Root,
                       [library EXCEPT !.show_library = show_library],
                       show_hidden, WindowWidth)
                   EXCEPT !.paths = paths, !.running = running]

\* the state a handler starts on: the status bar shows nothing of this call
\* and no exception is under way
Called == [lib EXCEPT !.err = <<>>, !.exc = <<>>]

\* a digit key: the key handler appends it to the numeric prefix
KeyDigit ==
    /\ Len(lib.num_str) < MaxNumLen
    /\ \E d \in PrefixDigits : lib' = [Called EXCEPT !.num_str = Append(@, d)]
    /\ UNCHANGED <<cfgvars, dirvars>>

Toggle ==
    /\ lib' = toggle(Called, TRUE)
    /\ UNCHANGED <<cfgvars, dirvars>>

\* reload of the working directory, as the other components ask for it
Reload ==
    /\ lib' = reload(Called, lib.cwd, <<>>, FALSE)
    /\ UNCHANGED <<cfgvars, dirvars>>

\* a search of the command line: it marks row 0 and reloads with search=True
Search ==
    /\ lib.files # <<>>
    /\ lib' = reload([Called EXCEPT !.search_positions = <<0>>],
                     lib.cwd, <<>>, TRUE)
    /\ UNCHANGED <<cfgvars, dirvars>>

MoveUp ==
    /\ \E directory \in MoveTargets : lib' = move_up(Called, directory, FALSE)
    /\ UNCHANGED <<cfgvars, dirvars>>

MovePos ==
    /\ \E forward \in BOOLEAN : lib' = move_pos(Called, forward, <<>>)
    /\ UNCHANGED <<cfgvars, dirvars>>

ToggleHidden ==
    /\ lib' = toggle_hidden(Called)
    /\ UNCHANGED <<cfgvars, dirvars>>

Scroll ==
    /\ \E direction \in {"h", "j", "k"} : lib' = scroll(Called, direction)
    /\ UNCHANGED <<cfgvars, dirvars>>

NextLibrary ==
    \/ KeyDigit \/ Toggle \/ Reload \/ Search \/ MoveUp \/ MovePos
    \/ ToggleHidden \/ Scroll

SpecLibrary == InitLibrary /\ [][NextLibrary]_vars

\* the number a pending prefix stands for
PrefixValue == DigitsValue(lib.num_str, 0)

\* the step is a call move_pos(forward) without an explicit position
MovePosStep(forward) == lib' = move_pos(Called, forward, <<>>)

\* C12: move_pos with a pending prefix n and no explicit position on a
\* listing of length L: for 1 <= n <= L the cursor becomes n-1 and the prefix
\* is cleared; otherwise a warning is reported, the cursor keeps its index and
\* the prefix is cleared.
C12Claim ==
    [][\A forward \in BOOLEAN :
         (lib.num_str # <<>> /\ MovePosStep(forward)) =>
            IF 1 <= PrefixValue /\ PrefixValue <= Len(lib.files)
            THEN lib'.cursor = PrefixValue - 1 /\ lib'.num_str = <<>>
            ELSE /\ lib'.err # <<>>
                 /\ lib'.cursor = lib.cursor
                 /\ lib'.num_str = <<>>]_vars

\* C13: after every call of move_pos the pending numeric prefix is empty.
C13Claim ==
    [][\A forward \in BOOLEAN : MovePosStep(forward) => lib'.num_str = <<>>]_vars

\* C14: move_pos with no explicit position and no pending prefix on a
\* non-empty listing of length L sets the cursor to L-1 when forward is true
\* and to 0 when forward is false.
C14LastOrFirst ==
    [][\A forward \in BOOLEAN :
         (lib.num_str = <<>> /\ lib.files # <<>> /\ MovePosStep(forward)) =>
            /\ lib'.cursor = IF forward THEN Len(lib.files) - 1 ELSE 0
            /\ lib'.err = <<>>]_vars

\* G was pressed in a listing of four rows: the cursor is on the last one
C14Witness ==
    /\ lib # <<>>
    /\ Len(lib.files) = 4
    /\ lib.cursor = 3
    /\ lib.num_str = <<>>
    /\ lib.err = <<>>
    /\ lib.dir_pos = <<>>

\* the step is a call move_up(directory) that entered the directory
MoveUpEntered(directory) ==
    /\ Chdir(lib.cwd, directory, lib.dirs).ok
    /\ lib'.cwd = Chdir(lib.cwd, directory, lib.dirs).cwd
    /\ lib' = move_up(Called, directory, FALSE)

\* the step is a call reload(os.getcwd())
ReloadStep ==
    /\ lib'.cwd = lib.cwd
    /\ lib'.show_hidden = lib.show_hidden
    /\ lib' = reload(Called, lib.cwd, <<>>, FALSE)

\* the cursor reload(directory, last_directory) is to leave, on the state
\* after the call
ExpectedCursor(directory, last_directory) ==
    IF directory \in DOMAIN lib'.dir_pos THEN lib'.dir_pos[directory]
    ELSE IF Basename(last_directory) \in Range(lib'.files)
         THEN IndexOf(lib'.files, Basename(last_directory))
    ELSE 0

\* C15: reload(directory, previous_directory) sets the cursor to the index
\* remembered for directory if there is one, otherwise to the index of the
\* basename of previous_directory if the new listing has it, otherwise leaves
\* the default cursor: for the reload of the working directory and for the
\* reload of every move_up that entered its directory.
C15Claim ==
    [][/\ ReloadStep =>
              lib'.cursor = ExpectedCursor(lib.cwd, <<>>)
       /\ \A directory \in MoveTargets :
             MoveUpEntered(directory) =>
                 lib'.cursor = ExpectedCursor(lib'.cwd, lib.cwd)]_vars

\* the call did not get as far as the cursor: building the model raised, and
\* move_up caught the exception and reported its error
ModelNotBuilt ==
    \/ lib'.exc # <<>>
    \/ "Error: directory not accessible" \in Range(lib'.err)

\* C15 as it holds: on a new listing that is not empty the row passed to
\* the tree view is the remembered index of directory if there is one,
\* otherwise the index of the basename of previous_directory if the listing
\* has it, otherwise the default row; on an empty listing the cursor is left
\* at its default, with a warning when an index is remembered; when building
\* the model raises, no row is passed to the tree view.
C15RestoresOnListing ==
    [][/\ ReloadStep =>
              IF ModelNotBuilt THEN lib'.cursor = lib.cursor
              ELSE IF lib'.files # <<>>
              THEN lib'.cursor = ExpectedCursor(lib.cwd, <<>>)
              ELSE /\ lib'.cursor = 0
                   /\ lib.cwd \in DOMAIN lib'.dir_pos => lib'.err # <<>>
       /\ \A directory \in MoveTargets :
             MoveUpEntered(directory) =>
                 IF ModelNotBuilt THEN lib'.cursor = lib.cursor
                 ELSE IF lib'.files # <<>>
                 THEN lib'.cursor = ExpectedCursor(lib'.cwd, lib.cwd)
                 ELSE /\ lib'.cursor = 0
                      /\ lib'.cwd \in DOMAIN lib'.dir_pos => lib'.err # <<>>]_vars

\* the library moved up from /b to / where nothing is remembered: the cursor
\* is on row "b", the second one when hidden files are shown
C15Witness ==
    /\ lib # <<>>
    /\ lib.cwd = Root
    /\ lib.show_hidden
    /\ Root \notin DOMAIN lib.dir_pos
    /\ DirB \in DOMAIN lib.dir_pos
    /\ lib.cursor = IndexOf(lib.files, <<"b">>)
    /\ lib.err = <<>>

(***************************************************************************)
(* resize: calls in windows of several widths, with steps and absolute      *)
(* values that are numbers, absent or no numbers.                           *)
(***************************************************************************)
WindowWidths == {250, 300, WindowWidth}

ResizeValues == {<<>>, <<"7">>, <<"-", "5", "0">>, <<"9", "9", "9">>, <<"x">>}

InitResize ==
    /\ NoConfig
    /\ \E winsize \in WindowWidths :
         lib = new_library(Root, library, library.show_hidden, winsize)

Resize ==
    /\ \E inc \in BOOLEAN, require_val \in BOOLEAN, val \in ResizeValues :
         lib' = resize(Called, inc, require_val, val)
    /\ UNCHANGED <<cfgvars, dirvars>>

NextResize == Resize

SpecResize == InitResize /\ [][NextResize]_vars

\* the step is the call resize(inc, require_val, val)
ResizeStep(inc, require_val, val) == lib' = resize(Called, inc, require_val, val)

\* a value that is given and is no integer
NonNumeric(val) == val # <<>> /\ ~ParseInt(val).ok

\* C16: after every resize call that reports no error the width w satisfies
\* 100 <= w <= window_width - 200; a non-numeric value reports an error and
\* leaves the width unchanged.
C16Claim ==
    [][\A inc \in BOOLEAN, require_val \in BOOLEAN, val \in ResizeValues :
         ResizeStep(inc, require_val, val) =>
            /\ lib'.err = <<>> =>
                  100 <= lib'.width /\ lib'.width <= lib.winsize - 200
            /\ NonNumeric(val) => lib'.err # <<>> /\ lib'.width = lib.width]_vars

\* C16 as it holds: in a window at least 300 wide the width ends within
\* [100, window_width - 200]; in a narrower window it ends at
\* window_width - 200 or at 100; a non-numeric value reports an error and
\* leaves the width unchanged.
C16Clamped ==
    [][\A inc \in BOOLEAN, require_val \in BOOLEAN, val \in ResizeValues :
         ResizeStep(inc, require_val, val) =>
            /\ lib'.err = <<>> =>
                  IF lib.winsize >= 300
                  THEN 100 <= lib'.width /\ lib'.width <= lib.winsize - 200
                  ELSE lib'.width \in {lib.winsize - 200, 100}
            /\ NonNumeric(val) => lib'.err # <<>> /\ lib'.width = lib.width]_vars

\* a resize in the wide window ended at the lower limit
C16Witness ==
    /\ lib # <<>>
    /\ lib.winsize = WindowWidth
    /\ lib.width = 100
    /\ lib.err = <<>>

\* the step is a call move_up(directory) that os.chdir refused
MoveUpRefused(directory) ==
    /\ ~Chdir(lib.cwd, directory, lib.dirs).ok
    /\ lib' = move_up(Called, directory, FALSE)

\* C17: move_up to a directory that cannot be entered reports exactly one
\* status-bar error and leaves the working directory, the listing, the
\* cursor, the search positions and the position memory as they were.
C17FailedMoveUpKeepsState ==
    [][\A directory \in MoveTargets :
         MoveUpRefused(directory) =>
            /\ Len(lib'.err) = 1
            /\ lib'.cwd = lib.cwd
            /\ lib'.files = lib.files
            /\ lib'.cursor = lib.cursor
            /\ lib'.search_positions = lib.search_positions
            /\ lib'.dir_pos = lib.dir_pos]_vars

\* a refused move_up, with search positions, a cursor and a remembered
\* position that a reload would have changed
C17Witness ==
    /\ lib # <<>>
    /\ lib.err = <<"Error: directory not accessible">>
    /\ lib.search_positions # <<>>
    /\ lib.cursor > 0
    /\ lib.dir_pos # <<>>

\* C18: toggle_hidden applied twice in a row leaves show_hidden and the file
\* listing as they were before the first call: the step is the first call,
\* the second is applied to the state the first has left.
C18ToggleHiddenTwice ==
    [][lib' = toggle_hidden(Called) =>
          LET twice == toggle_hidden([lib' EXCEPT !.err = <<>>])
          IN  /\ twice.show_hidden = lib.show_hidden
              /\ twice.files = lib.files
              /\ lib'.files = lib.disk[lib.cwd, ~lib.show_hidden,
                                       lib.file_check_amount].files]_vars

\* hidden files were switched on in the root directory: the listing shows
\* the dotfile, and the position remembered for the directory was not used
C18Witness ==
    /\ lib # <<>>
    /\ lib.cwd = Root
    /\ lib.show_hidden
    /\ Len(lib.files) = 5
    /\ Root \in DOMAIN lib.dir_pos
    /\ lib.dir_pos[Root] # lib.cursor
    /\ lib.cursor = 0

\* the step of scroll: the pending prefix, 1 when there is none
ScrollStep == IF lib.num_str = <<>> THEN 1 ELSE PrefixValue

Min(a, b) == IF a < b THEN a ELSE b

Max(a, b) == IF a > b THEN a ELSE b

\* C19: scroll('j') and scroll('k') on a non-empty listing of length L, the
\* rows the tree view shows, with cursor p and step s set the cursor to
\* min(p+s, L-1) and max(p-s, 0), which lies within [0, L-1] when p does,
\* and the pending prefix is empty afterwards.
C19ScrollClamped ==
    [][\A direction \in {"j", "k"} :
         (/\ lib.files # <<>>
          /\ lib.rows > 0
          /\ lib' = scroll(Called, direction)) =>
            /\ lib'.cursor =
                  IF direction = "j"
                  THEN Min(lib.cursor + ScrollStep, lib.rows - 1)
                  ELSE Max(lib.cursor - ScrollStep, 0)
            /\ lib.cursor \in 0..(lib.rows - 1) =>
                  lib'.cursor \in 0..(lib.rows - 1)
            /\ lib'.num_str = <<>>]_vars

\* a scroll down from the first row stopped at the last of four rows: the
\* prefix typed is gone
C19Witness ==
    /\ lib # <<>>
    /\ Len(lib.files) = 4
    /\ lib.cursor = 3
    /\ lib.num_str = <<>>
    /\ lib.dir_pos # <<>>
    /\ lib.err = <<>>

\* C20: toggle flips the visibility; when it hides, the position remembered
\* for the working directory becomes the cursor index and the positions of
\* all other directories stay; when it shows, no slideshow is running
\* afterwards.
C20ToggleFlips ==
    [][lib' = toggle(Called, TRUE) =>
          /\ lib'.visible = ~lib.visible
          /\ lib.visible =>
                /\ DOMAIN lib'.dir_pos = DOMAIN lib.dir_pos \cup {lib.cwd}
                /\ lib'.dir_pos[lib.cwd] = lib.cursor
                /\ \A d \in DOMAIN lib.dir_pos \ {lib.cwd} :
                      lib'.dir_pos[d] = lib.dir_pos[d]
          /\ ~lib.visible => ~lib'.running]_vars

\* the library was hidden on the second row of /b while a position of the
\* root directory was remembered
C20Witness ==
    /\ lib # <<>>
    /\ ~lib.visible
    /\ lib.cwd = DirB
    /\ lib.cursor = 1
    /\ DirB \in DOMAIN lib.dir_pos
    /\ lib.dir_pos[DirB] = 1
    /\ Root \in DOMAIN lib.dir_pos

(***************************************************************************)
(* The Library with the activation of rows: the handlers of the key         *)
(* bindings without numeric prefixes, and in addition scroll("l") and the   *)
(* signal row-activated (file_select with close True, line 83).  reload and *)
(* move_up are called by these handlers.                                    *)
(***************************************************************************)
InitSelect ==
    /\ NoConfig
    /\ \E show_library \in BOOLEAN, show_hidden \in BOOLEAN,
          paths \in StartPaths :
         lib = [new_library(Root,
                    [library EXCEPT !.show_library = show_library],
                    show_hidden, WindowWidth)
                EXCEPT !.paths = paths]

ScrollL ==
    /\ lib' = scroll(Called, "l")
    /\ UNCHANGED <<cfgvars, dirvars>>

\* a row of the tree view on the screen is activated
RowActivated ==
    /\ lib.visible
    /\ \E count \in 0..(lib.rows - 1) : lib' = file_select(Called, count, TRUE)
    /\ UNCHANGED <<cfgvars, dirvars>>

NextSelect ==
    \/ Toggle \/ MovePos \/ ToggleHidden \/ Scroll \/ ScrollL \/ RowActivated

SpecSelect == InitSelect /\ [][NextSelect]_vars

(***************************************************************************)
(* The Library hidden and shown: the handlers that C21 names, resize being  *)
(* called with the default width and with a width beyond the limit.         *)
(***************************************************************************)
HiddenWidths == {<<>>, <<"9", "9", "9">>}

ResizeTo ==
    /\ \E val \in HiddenWidths : lib' = resize(Called, TRUE, TRUE, val)
    /\ UNCHANGED <<cfgvars, dirvars>>

NextHidden ==
    \/ Toggle \/ Reload \/ MoveUp \/ MovePos \/ ToggleHidden \/ Scroll
    \/ ResizeTo

SpecHidden == InitSelect /\ [][NextHidden]_vars

\* the step is one of the calls that do not reach focus(True): move_pos,
\* resize, scroll("j") and scroll("k")
QuietStep ==
    \/ \E forward \in BOOLEAN : lib' = move_pos(Called, forward, <<>>)
    \/ \E val \in HiddenWidths : lib' = resize(Called, TRUE, TRUE, val)
    \/ \E direction \in {"j", "k"} : lib' = scroll(Called, direction)

\* the step is one of the calls that reload: reload, toggle_hidden, move_up
\* and scroll("h")
ReloadingStep ==
    \/ lib' = reload(Called, lib.cwd, <<>>, FALSE)
    \/ lib' = toggle_hidden(Called)
    \/ \E directory \in MoveTargets : lib' = move_up(Called, directory, FALSE)
    \/ lib' = scroll(Called, "h")

\* C21: reload, move_up, toggle_hidden, move_pos, resize and scroll j/k/h
\* performed while the pane is hidden leave it hidden.
C21Claim ==
    [][(~lib.visible /\ (QuietStep \/ ReloadingStep)) => ~lib'.visible]_vars

\* C21 as it holds: move_pos, resize and scroll j/k leave a hidden pane
\* hidden and a visible pane visible; reload, toggle_hidden, move_up and
\* scroll h never hide a visible pane, and on a hidden pane they end with the
\* pane visible exactly when the new listing was given to the tree view,
\* that is when no exception was raised and move_up reported no error.
C21ShownByFocus ==
    [][/\ QuietStep => lib'.visible = lib.visible
       /\ ReloadingStep =>
             /\ lib.visible => lib'.visible
             /\ ~lib.visible =>
                   (lib'.visible <=>
                       /\ lib'.exc = <<>>
                       /\ "Error: directory not accessible"
                             \notin Range(lib'.err))]_vars

\* a hidden library whose cursor and width were changed while it was hidden:
\* hiding it would have remembered a position
C21Witness ==
    /\ lib # <<>>
    /\ ~lib.visible
    /\ lib.dir_pos = <<>>
    /\ lib.cursor = Len(lib.files) - 1
    /\ lib.cursor > 0
    /\ lib.width = lib.winsize - 200

(***************************************************************************)
(* The size column: libraries with several values of file_check_amount, in  *)
(* every directory and with hidden files shown or not.                      *)
(***************************************************************************)
InitListing ==
    /\ NoConfig
    /\ \E amount \in CheckAmounts, show_hidden \in BOOLEAN :
         lib = new_library(Root,
                   [library EXCEPT !.file_check_amount = amount],
                   show_hidden, WindowWidth)

NextListing == Toggle \/ Reload \/ MoveUp \/ MovePos \/ ToggleHidden \/ Scroll

SpecListing == InitListing /\ [][NextListing]_vars

\* the entries of a subdirectory of the working directory as the library
\* lists them
SubEntries(fil) == listdir_wrapper(AbsPath(lib.cwd, fil), lib.show_hidden)

\* the number of images among the first file_check_amount entries
ImagesCounted(fil) ==
    Cardinality({i \in 1..Len(SubEntries(fil).names) :
                    /\ i <= lib.file_check_amount
                    /\ KindOf(Join(AbsPath(lib.cwd, fil),
                                   SubEntries(fil).names[i])) = "image"})

\* the subdirectories in the size column
SizedDirs ==
    {fil \in DOMAIN lib.filesize : KindOf(AbsPath(lib.cwd, fil)) = "dir"}

\* C22: the size of a listable subdirectory is the number of images among
\* its first file_check_amount entries, with the suffix "+" whenever it has
\* more entries than file_check_amount, also when that number is 0; a
\* subdirectory that cannot be listed has "N/A".
C22Claim ==
    lib # <<>> =>
       \A fil \in SizedDirs :
          lib.filesize[fil] =
             IF ~SubEntries(fil).ok THEN <<"N", "/", "A">>
             ELSE IF Len(SubEntries(fil).names) > lib.file_check_amount
                  THEN NatToStr(ImagesCounted(fil)) \o <<"+">>
             ELSE NatToStr(ImagesCounted(fil))

\* C22 as it holds: the suffix "+" is there exactly when the subdirectory
\* lists more entries than file_check_amount and at least one image was
\* counted.
C22SizeColumn ==
    lib # <<>> =>
       \A fil \in SizedDirs :
          lib.filesize[fil] =
             IF ~SubEntries(fil).ok THEN <<"N", "/", "A">>
             ELSE IF Len(SubEntries(fil).names) > lib.file_check_amount
                     /\ ImagesCounted(fil) > 0
                  THEN NatToStr(ImagesCounted(fil)) \o <<"+">>
             ELSE NatToStr(ImagesCounted(fil))

\* /b was entered with file_check_amount 1 and hidden files shown: /b/c
\* lists two entries, and the first of them is an image
C22Witness ==
    /\ lib # <<>>
    /\ lib.cwd = DirB
    /\ lib.file_check_amount = 1
    /\ lib.show_hidden
    /\ lib.filesize[<<"c">>] = <<"1", "+">>

\* the entry under the cursor
Activated == lib.files[lib.cursor + 1]

\* C23: file_select with close false on an entry that is no directory,
\* outside the tag directory, closes the library only if the activated entry
\* is the image that is displayed.
C23Claim ==
    [][(/\ lib.visible
        /\ lib.cursor < Len(lib.files)
        /\ lib.cwd # TagsDirectory
        /\ ~isdir(lib, Activated)
        /\ lib' = file_select(Called, lib.cursor, FALSE)
        /\ ~lib'.visible)
       => /\ lib.paths # <<>>
          /\ lib.paths[lib.index + 1] = AbsPath(lib.cwd, Activated)]_vars

\* C24: whenever the listing is not empty and is the one the tree view
\* shows, the row passed to the tree view lies in [0, len(files) - 1].
C24Claim ==
    (lib # <<>> /\ lib.files # <<>> /\ lib.rows = Len(lib.files)) =>
        lib.cursor \in 0..(Len(lib.files) - 1)

\* C25: after every liststore_create every file of the listing has an entry
\* in the filesize dictionary, and the call raises no KeyError.
C25Claim ==
    lib # <<>> =>
        /\ \A fil \in Range(lib.files) : fil \in DOMAIN lib.filesize
        /\ lib.exc # <<"KeyError">>

=============================================================================
